---- MODULE Spec2Model ----
(***************************************************************************)
(* Competency Profile (CP) document store of the DACUM backend: the        *)
(* in-memory version store cpStore, the draft generator, the structural    *)
(* validator and the lock handler.  Two revisions of the backend are in    *)
(* the repository (src/server.js and the older src/unnamed/part_003); the  *)
(* variable rev says which one is running.                                 *)
(*                                                                         *)
(* Abstractions.  A text is kept by the class the code's tests put it in:  *)
(* a PC text is empty, blank (white space only), "telah" (matches          *)
(* /^telah\b/i) or plain; a WS text is kept as the two keyword tests of    *)
(* the completeness heuristic (chk, rec).  Time stamps are "ts".  Issue    *)
(* messages are left out of an issue; its level, code and position stay.   *)
(***************************************************************************)
EXTENDS Integers, Sequences, FiniteSets, TLC

\* ---------------------------------------------------------------- bounds
MaxWA == 3          \* most Work Activities in a submitted document or a CU
MaxWS == 3          \* most Work Steps in a Work Activity of a submitted document
MaxVersion == 3     \* version numbers are capped at v<MaxVersion>
MaxPending == 1     \* most draft requests suspended at an await
MaxWsMin == 5       \* largest ai.wsMin a draft request carries
MaxLlmRows == 4     \* most usable rows in one answer of the text-generation service
MaxCards == 3       \* most cards in the session a clustering run reads
MaxPage == 2        \* pages of the external NOSS list
MaxCatalog == 2     \* most records of the CU index a comparison reads
MaxRequests == 3    \* most comparison requests in flight at once
MaxClock == 6       \* card ids (Date.now()) are capped at this value
MaxVectors == 3     \* most vectors given to buildGraphClusters

\* ------------------------------------------------------ program constants
MinWa == 3          \* a CU needs at least 3 WA
MinWs == 3          \* a WA needs at least 3 WS
FallbackRows == 4   \* rows of the fallback WS/PC template
MinCards == 5       \* a cluster run needs at least 5 cards

Undef == "undefined"
Null == "null"
Revisions == {"server.js", "part_003"}

\* ----------------------------------------------------------------- helpers
RECURSIVE Flatten(_)
Flatten(ss) == IF ss = <<>> THEN <<>> ELSE Head(ss) \o Flatten(Tail(ss))

Max(a, b) == IF a >= b THEN a ELSE b
Min(a, b) == IF a <= b THEN a ELSE b

\* Array.prototype.slice(0, n)
SliceTo(s, n) == SubSeq(s, 1, Min(Len(s), Max(n, 0)))

\* ------------------------------------------------------------- documents
\* step.pc as found in a document: absent, a string, or an object
\* {verb, object, qualifier, pcText}; verb/object/qualifier say whether the
\* trimmed component is non-empty.
PcAbsent == [kind |-> "absent", text |-> "empty", verb |-> FALSE, object |-> FALSE, qualifier |-> FALSE]
PcStr(t) == [kind |-> "string", text |-> t, verb |-> FALSE, object |-> FALSE, qualifier |-> FALSE]
PcObj(t, v, o, q) == [kind |-> "object", text |-> t, verb |-> v, object |-> o, qualifier |-> q]

WStep(pc, chk, rec) == [pc |-> pc, chk |-> chk, rec |-> rec]
\* key is the field of the WA that carries the steps: "ws" or "workSteps"
WAct(key, steps) == [key |-> key, steps |-> steps]

Issue(level, code, wa, ws) == [level |-> level, code |-> code, wa |-> wa, ws |-> ws]

\* a document that carries no validation field yet
NoValidation == [absent |-> TRUE]
\* cpId: null
NoCpId == << "null", << "null", 0 >> >>
NoAudit == [lockedAt |-> Null, lockedBy |-> Null, updatedBy |-> {}]

\* shape is the field of the document that carries the WA list:
\* "waItems", "workActivities" or "none"
Doc(status, shape, wa) ==
  [status |-> status, shape |-> shape, wa |-> wa,
   validation |-> NoValidation, audit |-> NoAudit, cpId |-> NoCpId]

\* if (waCount < 3) issues.push({level: "ERROR", code: "MIN_WA"})
MinWaIssueLoose(waCount) ==
  IF waCount < MinWa - 1 THEN << Issue("ERROR", "MIN_WA", 0, 0) >> ELSE <<>>
MinWaIssue(waCount) ==
  IF waCount < MinWa THEN << Issue("ERROR", "MIN_WA", 0, 0) >> ELSE <<>>

\* ------------------------------------------------- validateCp (server.js)
\* String(step.pc || "").trim(): "" | "telah" | "other"
PcTrimmed(step) ==
  IF step.pc.kind = "absent" THEN ""
  ELSE IF step.pc.kind = "object" THEN "other"       \* "[object Object]"
  ELSE IF step.pc.text \in {"empty", "blank"} THEN ""
  ELSE IF step.pc.text = "telah" THEN "telah" ELSE "other"

\* wa.ws if it is an array, else wa.workSteps if it is an array, else []
WsListNew(wa) == wa.steps

StepIssuesStrict(i, j, step) ==
  IF PcTrimmed(step) = "" THEN << Issue("ERROR", "MISSING_PC", i, j) >>
  ELSE IF PcTrimmed(step) # "telah" THEN << Issue("ERROR", "PC_NOT_PAST_TENSE", i, j) >>
  ELSE <<>>
StepIssuesNew(i, j, step) ==
  IF PcTrimmed(step) = "" THEN << Issue("ERROR", "MISSING_PC", i, j) >>
  ELSE IF PcTrimmed(step) # "telah" THEN << Issue("WARN", "PC_NOT_PAST_TENSE", i, j) >>
  ELSE <<>>

WaIssuesNew(i, wa) ==
  LET wsList == WsListNew(wa) IN
  (IF Len(wsList) < MinWs THEN << Issue("ERROR", "MIN_WS", i, 0) >> ELSE <<>>)
  \o Flatten([j \in 1..Len(wsList) |-> StepIssuesNew(i, j, wsList[j])])

validateCp(cp) ==
  LET waList == IF cp.shape \in {"waItems", "workActivities"} THEN cp.wa ELSE <<>>
      waCount == Len(waList)
      issues == MinWaIssue(waCount)
                \o Flatten([i \in 1..waCount |-> WaIssuesNew(i, waList[i])])
      minWsOk == \A i \in 1..waCount : Len(WsListNew(waList[i])) >= MinWs
      onePcOk == \A i \in 1..waCount :
                   \A j \in 1..Len(WsListNew(waList[i])) :
                     PcTrimmed(WsListNew(waList[i])[j]) # ""
      pastTenseOk == \A i \in 1..waCount :
                       \A j \in 1..Len(WsListNew(waList[i])) :
                         PcTrimmed(WsListNew(waList[i])[j]) # "other"
      minRulesPassed == waCount >= MinWa /\ minWsOk /\ onePcOk
  IN [ok |-> minRulesPassed, minRulesPassed |-> minRulesPassed, issues |-> issues,
      stats |-> [waCount |-> waCount, minWsOk |-> minWsOk, onePcOk |-> onePcOk,
                 pastTenseOk |-> pastTenseOk]]

\* -------------------------------------------------- validateCp (part_003)
\* cp.workActivities || []
WaListR3(cp) == IF cp.shape = "workActivities" THEN cp.wa ELSE <<>>
\* wa.workSteps || []
WsListR3(wa) == IF wa.key = "workSteps" THEN wa.steps ELSE <<>>

\* !step.pc
PcFalsy(step) ==
  step.pc.kind = "absent" \/ (step.pc.kind = "string" /\ step.pc.text = "empty")

\* !trim(pc.verb) || !trim(pc.object) || !trim(pc.qualifier), pc = step.pc || {}
VocMissing(step) ==
  \/ step.pc.kind # "object"
  \/ ~step.pc.verb \/ ~step.pc.object \/ ~step.pc.qualifier

MinIssuesR3(i, wa) ==
  LET ws == WsListR3(wa) IN
  (IF Len(ws) < MinWs THEN << Issue("ERROR", "MIN_WS", i, 0) >> ELSE <<>>)
  \o Flatten([j \in 1..Len(ws) |->
       IF PcFalsy(ws[j]) THEN << Issue("ERROR", "MISSING_PC", i, j) >> ELSE <<>>])

VocIssuesR3(i, wa) ==
  LET ws == WsListR3(wa) IN
  Flatten([j \in 1..Len(ws) |->
       IF VocMissing(ws[j]) THEN << Issue("ERROR", "VOC_FAIL", i, j) >> ELSE <<>>])

\* the two keyword tests on the joined, lower-cased WS texts of one WA
HasCheck(wa) == \E j \in 1..Len(WsListR3(wa)) : WsListR3(wa)[j].chk
HasRecord(wa) == \E j \in 1..Len(WsListR3(wa)) : WsListR3(wa)[j].rec

CompletenessIssuesR3(i, wa) ==
  IF ~HasCheck(wa) \/ ~HasRecord(wa)
  THEN << Issue("WARNING", "WS_INCOMPLETE", i, 0) >> ELSE <<>>

validateCp_r3(cp) ==
  LET waList == WaListR3(cp)
      waCount == Len(waList)
      minWsOk == \A i \in 1..waCount : Len(WsListR3(waList[i])) >= MinWs
      onePcOk == \A i \in 1..waCount :
                   \A j \in 1..Len(WsListR3(waList[i])) : ~PcFalsy(WsListR3(waList[i])[j])
      vocPassed == \A i \in 1..waCount :
                     \A j \in 1..Len(WsListR3(waList[i])) : ~VocMissing(WsListR3(waList[i])[j])
      completenessPassed == \A i \in 1..waCount : HasCheck(waList[i]) /\ HasRecord(waList[i])
      issues == MinWaIssue(waCount)
                \o Flatten([i \in 1..waCount |-> MinIssuesR3(i, waList[i])])
                \o Flatten([i \in 1..waCount |-> VocIssuesR3(i, waList[i])])
                \o Flatten([i \in 1..waCount |-> CompletenessIssuesR3(i, waList[i])])
  IN [minRulesPassed |-> waCount >= MinWa /\ minWsOk /\ onePcOk,
      vocPassed |-> vocPassed, completenessPassed |-> completenessPassed,
      issues |-> issues]

\* the validateCp of the running revision
Validate(r, cp) == IF r = "server.js" THEN validateCp(cp) ELSE validateCp_r3(cp)

\* (validation.issues || []).some((x) => x.level === "ERROR")
HasErrorTypo(validation) ==
  \E k \in 1..Len(validation.issues) : validation.issues[k].level = "Error"
HasError(validation) ==
  \E k \in 1..Len(validation.issues) : validation.issues[k].level = "ERROR"


\* ------------------------------------------------------------ CU of a CPC
\* The lower-cased leading keyword of a WA title, by the template it selects.
Categories == {"analyze", "plan", "perform", "evaluate", "prepare", "default"}

\* A WA of a CU: waCode/waTitle say whether the trimmed field is non-empty.
\* buildCpcForSession only emits WAs with a title and numbers them W01, W02...
CuWa(cat) == [cat |-> cat, waCode |-> TRUE, waTitle |-> TRUE]
Cu(was) == [wa |-> was]

\* ----------------------------------------------------------- JS numbers
Num(n) == [nan |-> FALSE, n |-> n]
NaN == [nan |-> TRUE, n |-> 0]
\* Math.max(a, x) for a number a
MathMax(a, x) == IF x.nan THEN NaN ELSE Num(Max(a, x.n))
\* x - k
Minus(x, k) == IF x.nan THEN NaN ELSE Num(x.n - k)
\* Array.prototype.slice(0, x): NaN counts as 0
SliceNum(s, x) == IF x.nan THEN <<>> ELSE SliceTo(s, x.n)
\* The request's ai.wsMin: absent, a number, or a value that is no number.
AiAbsent == [kind |-> "absent", n |-> 0]
AiNum(n) == [kind |-> "num", n |-> n]
AiText == [kind |-> "text", n |-> 0]
\* Number(ai.wsMin || 3)
WsMinArg(v) ==
  IF v.kind = "absent" \/ (v.kind = "num" /\ v.n = 0) THEN Num(MinWs)
  ELSE IF v.kind = "text" THEN NaN ELSE Num(v.n)

\* -------------------------------------------- generateCpDraft (server.js)
\* one {wsTitle, pc} row; pc is the class of the row's PC text
Row(pc) == [wsTitle |-> TRUE, pc |-> pc]

\* fallbackWsPc(waTitle, wsMin): base.slice(0, Math.max(3, wsMin))
fallbackWsPc(wsMin) ==
  SliceNum([k \in 1..FallbackRows |-> Row("plain")], MathMax(MinWs, wsMin))

\* The rows of one WA.  llm.ok: the service answered with JSON whose ws is a
\* non-empty array; llm.rows: the rows of it with a title and a pc.
wsRowsFor(llm, wsMin) ==
  IF llm.ok
  THEN LET wsRows == [k \in 1..llm.rows |-> Row(llm.pc)] IN
       IF ~wsMin.nan /\ Len(wsRows) < wsMin.n
       THEN SliceNum(wsRows \o fallbackWsPc(Minus(wsMin, Len(wsRows))), wsMin)
       ELSE wsRows
  ELSE fallbackWsPc(wsMin)

\* if (pc && !/^telah\b/i.test(pc)) pc = "Telah " + pc;  pc || "Telah xxx"
PcOfRow(row) == PcStr("telah")

generateCpDraft(cu, ai, llm) ==
  LET wsMin == MathMax(MinWs, WsMinArg(ai.wsMin))
      waItemsLocked == SelectSeq(cu.wa, LAMBDA w : w.waCode /\ w.waTitle)
      wsOf(i) == LET rows == SliceNum(wsRowsFor(llm[i], wsMin), wsMin) IN
                 [j \in 1..Len(rows) |-> WStep(PcOfRow(rows[j]), FALSE, FALSE)]
  IN Doc(Undef, "waItems", [i \in 1..Len(waItemsLocked) |-> WAct("ws", wsOf(i))])

\* --------------------------------------------- generateCpDraft (part_003)
\* waTemplatesForMS / waTemplatesForEN: three rows per category; a row is kept
\* by the keyword tests of its ws text (the same in both languages).
Tpl(chk, rec) == WStep(PcObj("plain", TRUE, TRUE, TRUE), chk, rec)
waTemplatesFor(cat) ==
  CASE cat = "analyze"  -> << Tpl(FALSE, FALSE), Tpl(TRUE, TRUE),  Tpl(FALSE, TRUE) >>
    [] cat = "plan"     -> << Tpl(FALSE, FALSE), Tpl(FALSE, FALSE), Tpl(FALSE, TRUE) >>
    [] cat = "perform"  -> << Tpl(FALSE, FALSE), Tpl(FALSE, TRUE), Tpl(FALSE, TRUE) >>
    [] cat = "evaluate" -> << Tpl(TRUE, FALSE),  Tpl(FALSE, FALSE), Tpl(FALSE, TRUE) >>
    [] cat = "prepare"  -> << Tpl(FALSE, TRUE),  Tpl(FALSE, TRUE), Tpl(TRUE, TRUE) >>
    [] OTHER            -> << Tpl(FALSE, FALSE), Tpl(FALSE, FALSE), Tpl(FALSE, TRUE) >>

\* extractWaFromCu keeps every WA of the CU
generateCpDraft_r3(cu) ==
  [Doc("DRAFT", "workActivities",
       [i \in 1..Len(cu.wa) |-> WAct("workSteps", waTemplatesFor(cu.wa[i].cat))])
   EXCEPT !.audit = [lockedAt |-> Null, lockedBy |-> Null, updatedBy |-> {"AI"}]]


\* ------------------------------------------------------------------ state
VARIABLES
  rev,       \* the revision of the backend that is running
  cpStore,   \* cpStore[sessionId][cuKey] = {latestVersion, versions: [{version, cp}]}
  heap,      \* the CP objects the version entries refer to
  pending,   \* draft requests suspended at the await of generateCpDraft
  resp,      \* the last response sent
  arg,       \* input of the pure function under check
  out,       \* its result
  disk       \* the files of the data directory: the CU index and its meta

vars == << rev, cpStore, heap, pending, resp, arg, out, disk >>

\* loadCuIndex / loadCuMeta when the files do not exist
NoDisk == [index |-> <<>>, meta |-> [lastPage |-> 0, totalCU |-> 0]]

\* the (sessionId, cuKey) pairs
CuKeys == {"s1/c01"}

\* latestVersion: null
NoVersion == << "null", 0 >>
NoBucket == [latestVersion |-> NoVersion, versions |-> <<>>]
NoResp == [op |-> "none", code |-> 0]
NoArg == [kind |-> "none"]
NoOut == [done |-> FALSE]

\* `v${n}`
V(n) == << "v", n >>
\* Number(String(lastV).replace(/^v/i, "")) || 1
VersionNumber(v) == IF v[1] \in {"v", "V"} /\ v[2] # 0 THEN v[2] ELSE 1

\* _getLatestCp returns null: no bucket, or no version in it
NoLatestCp(store, k) == store[k].versions = <<>>
\* _getLatestCp otherwise
getLatestCp(store, k) == store[k].versions[Len(store[k].versions)]

\* The bucket after _saveCpVersion(sessionId, cuKey, cp, {bumpVersion}); o is the
\* CP object.
saveCpVersionPush(cur, o, bumpVersion) ==
  LET n == Len(cur.versions)
      lastV == cur.versions[n].version
      nextV == IF n = 0 THEN V(1)
               ELSE IF bumpVersion THEN V(VersionNumber(lastV) + 1) ELSE lastV
  IN [latestVersion |-> nextV,
      versions |-> Append(cur.versions, [version |-> nextV, cp |-> o])]
saveCpVersionNoBump(cur, o, bumpVersion) ==
  LET n == Len(cur.versions)
      nextV == IF n = 0 THEN V(1) ELSE cur.versions[n].version
      payload == [version |-> nextV, cp |-> o]
  IN [latestVersion |-> nextV,
      versions |-> IF n = 0 THEN << payload >> ELSE [cur.versions EXCEPT ![n] = payload]]
saveCpVersion(cur, o, bumpVersion) ==
  LET n == Len(cur.versions)
      lastV == cur.versions[n].version
      nextV == IF n = 0 THEN V(1)
               ELSE IF bumpVersion THEN V(VersionNumber(lastV) + 1) ELSE lastV
      hits == {i \in 1..n : cur.versions[i].version = nextV}
      idx == CHOOSE i \in hits : \A j \in hits : i <= j
      payload == [version |-> nextV, cp |-> o]
  IN [latestVersion |-> nextV,
      versions |-> IF hits # {} THEN [cur.versions EXCEPT ![idx] = payload]
                   ELSE Append(cur.versions, payload)]

\* the objects some version entry refers to
Live(store) ==
  UNION {{store[k].versions[i].cp : i \in 1..Len(store[k].versions)} : k \in CuKeys}

\* An object is named by the pair and the index of the first entry that
\* refers to it; << k, 0 >> names the object a handler is about to store.
FreshObj(k) == << k, 0 >>
Named(bucket, k) ==
  LET first == CHOOSE i \in 1..Len(bucket.versions) :
                 /\ bucket.versions[i].cp = FreshObj(k)
                 /\ \A j \in 1..(i - 1) : bucket.versions[j].cp # FreshObj(k)
  IN [bucket EXCEPT !.versions =
        [i \in 1..Len(bucket.versions) |->
           IF bucket.versions[i].cp = FreshObj(k)
           THEN [bucket.versions[i] EXCEPT !.cp = << k, first >>]
           ELSE bucket.versions[i]]]

\* heap h with the object stored last set to cp, less what no entry refers to
Collect(h, cp, store) ==
  [x \in Live(store) |-> IF x \in DOMAIN h THEN h[x] ELSE cp]

LatestNumber(store, k) ==
  IF store[k].versions = <<>> THEN 0 ELSE VersionNumber(getLatestCp(store, k).version)

\* ------------------------------------------------------- request inputs
\* CUs of a CPC a draft is asked for: one WA too few or just enough, all WAs
\* under one leading keyword
StoreCats == {"evaluate", "default"}
StoreCus ==
  {Cu([i \in 1..n |-> CuWa(c)]) : n \in (MinWa - 1)..MinWa, c \in StoreCats}
\* server.js reads no keyword of a WA title
StoreCusNew == {cu \in StoreCus : \A i \in 1..Len(cu.wa) : cu.wa[i].cat = "default"}
\* ai.wsMin of a draft request
StoreAis == {[wsMin |-> AiAbsent], [wsMin |-> AiText]}
\* what the text-generation service does for the WAs of one draft
LlmFail == [ok |-> FALSE, rows |-> 0, pc |-> "plain"]
LlmRows(n) == [ok |-> TRUE, rows |-> n, pc |-> "plain"]
StoreLlms == {[i \in 1..MinWa |-> l] : l \in {LlmFail, LlmRows(1)}}

\* Documents the facilitator's editor submits.  Steps(n, ws) is n copies of ws.
Steps(n, ws) == [j \in 1..n |-> ws]
NewStep(t) == WStep(PcStr(t), FALSE, FALSE)
OldStep(pc) == WStep(pc, TRUE, TRUE)
NewDoc(nWa, nWs, t) ==
  Doc("DRAFT", "waItems", [i \in 1..nWa |-> WAct("ws", Steps(nWs, NewStep(t)))])
OldDoc(nWa, nWs, pc) ==
  Doc("DRAFT", "workActivities", [i \in 1..nWa |-> WAct("workSteps", Steps(nWs, OldStep(pc)))])
FullPc == PcObj("telah", TRUE, TRUE, TRUE)
FreshBodies ==
  { OldDoc(MinWa, MinWs, FullPc), NewDoc(MinWa, MinWs, "empty") }
\* The latest stored document as the editor got it, sent back with its last
\* WA removed when it has the WAs it needs.
EditsOf(cp) ==
  IF Len(cp.wa) >= MinWa THEN {[cp EXCEPT !.wa = SliceTo(cp.wa, Len(cp.wa) - 1)]} ELSE {}
PutBodies(k) ==
  FreshBodies \cup
  (IF NoLatestCp(cpStore, k) THEN {} ELSE EditsOf(heap[getLatestCp(cpStore, k).cp]))
LockedBys == {"PANEL"}

\* ------------------------------------------------------------------ Init
Init ==
  /\ rev \in Revisions
  /\ cpStore = [k \in CuKeys |-> NoBucket]
  /\ heap = [o \in {} |-> Null]
  /\ pending = {}
  /\ disk = NoDisk
  /\ resp = NoResp
  /\ arg = NoArg
  /\ out = NoOut

\* --------------------------------------------------------------- actions
\* save cp as a new object under key k and answer
Store(k, cp, bump, op) ==
  LET bucket == Named(saveCpVersion(cpStore[k], FreshObj(k), bump), k)
      store == [cpStore EXCEPT ![k] = bucket]
      kept == [x \in DOMAIN heap \cap Live([cpStore EXCEPT ![k] =
                  saveCpVersion(cpStore[k], FreshObj(k), bump)]) |-> heap[x]]
  IN /\ cpStore' = store
     /\ heap' = Collect(kept, cp, store)
     /\ resp' = [op |-> op, code |-> 200]

\* POST /api/cp/draft, server.js: up to the await of generateCpDraft
DraftBegin(k, cu, ai) ==
  /\ rev = "server.js"
  /\ Cardinality(pending) < MaxPending
  /\ pending' = pending \cup {[key |-> k, cu |-> cu, ai |-> ai]}
  /\ UNCHANGED << rev, disk, cpStore, heap, resp, arg, out >>

\* POST /api/cp/draft, server.js: from the await to the response
DraftFinish(p, llm) ==
  /\ rev = "server.js"
  /\ p \in pending
  /\ LatestNumber(cpStore, p.key) < MaxVersion
  /\ LET cp == generateCpDraft(p.cu, p.ai, llm)
     IN Store(p.key, [cp EXCEPT !.validation = validateCp(cp)], TRUE, "draft")
  /\ pending' = pending \ {p}
  /\ UNCHANGED << rev, disk, arg, out >>

\* POST /api/cp/draft, part_003
DraftR3(k, cu) ==
  /\ rev = "part_003"
  /\ LatestNumber(cpStore, k) < MaxVersion
  /\ LET cp == generateCpDraft_r3(cu)
     IN Store(k, [cp EXCEPT !.validation = validateCp_r3(cp)], TRUE, "draft")
  /\ UNCHANGED << rev, disk, pending, arg, out >>

\* PUT /api/cp/:sessionId/:cuId
PutStale(k, body) ==
  /\ LET cp == [body EXCEPT !.audit.updatedBy = @ \cup {"FACILITATOR"}]
     IN Store(k, cp, FALSE, "put")
  /\ UNCHANGED << rev, disk, pending, arg, out >>
PutBump(k, body) ==
  /\ LatestNumber(cpStore, k) < MaxVersion
  /\ LET cp == [body EXCEPT !.validation = Validate(rev, body),
                            !.audit.updatedBy = @ \cup {"FACILITATOR"}]
     IN Store(k, cp, TRUE, "put")
  /\ UNCHANGED << rev, disk, pending, arg, out >>
Put(k, body) ==
  /\ LET cp == [body EXCEPT !.validation = Validate(rev, body),
                            !.audit.updatedBy = @ \cup {"FACILITATOR"}]
     IN Store(k, cp, FALSE, "put")
  /\ UNCHANGED << rev, disk, pending, arg, out >>

\* POST /api/cp/lock
Lock(k, lockedBy) ==
  LET latest == getLatestCp(cpStore, k) IN
  IF NoLatestCp(cpStore, k)
  THEN /\ resp' = [op |-> "lock", code |-> 404]
       /\ UNCHANGED << rev, disk, cpStore, heap, pending, arg, out >>
  ELSE LET o == latest.cp
           validation == Validate(rev, heap[o])
           h1 == [heap EXCEPT ![o].validation = validation]
       IN IF HasError(validation)
          THEN /\ heap' = h1
               /\ resp' = [op |-> "lock", code |-> 400, validation |-> validation]
               /\ UNCHANGED << rev, disk, cpStore, pending, arg, out >>
          ELSE /\ LatestNumber(cpStore, k) < MaxVersion
               /\ LET bucket == saveCpVersion(cpStore[k], o, TRUE)
                      h2 == [h1 EXCEPT ![o].status = "LOCKED",
                                       ![o].audit.lockedAt = "ts",
                                       ![o].audit.lockedBy = lockedBy,
                                       ![o].cpId = << k, bucket.latestVersion >>]
                  IN /\ cpStore' = [cpStore EXCEPT ![k] = bucket]
                     /\ heap' = h2
                     /\ resp' = [op |-> "lock", code |-> 200]
               /\ UNCHANGED << rev, disk, pending, arg, out >>

Next ==
  \/ \E k \in CuKeys, cu \in StoreCusNew, ai \in StoreAis : DraftBegin(k, cu, ai)
  \/ \E p \in pending, llm \in StoreLlms : DraftFinish(p, llm)
  \/ \E k \in CuKeys, cu \in StoreCus : DraftR3(k, cu)
  \/ \E k \in CuKeys : \E body \in PutBodies(k) : Put(k, body)
  \/ \E k \in CuKeys, by \in LockedBys : Lock(k, by)

Spec == Init /\ [][Next]_vars


\* ------------------------------------------- validation of one document
\* Documents to probe the validator with: nWa WAs of MinWs sound steps each,
\* one of them (the first or the last) cut to nWs steps of which one (its
\* first or its last) is the step under probe.
ProbePcs ==
  {PcAbsent} \cup {PcStr(t) : t \in {"empty", "blank", "telah", "plain"}}
  \cup {PcObj(t, f[1], f[2], f[3]) :
          t \in {"empty", "telah", "plain"},
          f \in {<<TRUE, TRUE, TRUE>>, <<FALSE, TRUE, TRUE>>,
                 <<TRUE, FALSE, TRUE>>, <<TRUE, TRUE, FALSE>>}}
ProbeWa(key, nWs, probe, sound, front) ==
  WAct(key, [j \in 1..nWs |->
               IF j = (IF front THEN 1 ELSE nWs) THEN probe ELSE sound])
ProbeDoc(shape, nWa, nWs, pc, kw, front) ==
  LET key == IF shape = "waItems" THEN "ws" ELSE "workSteps"
      sound == WStep(IF shape = "waItems" THEN PcStr("telah") ELSE FullPc, kw, kw)
      probe == WStep(pc, kw, kw)
  IN Doc("DRAFT", shape,
         [i \in 1..nWa |->
            IF i = (IF front THEN 1 ELSE nWa)
            THEN ProbeWa(key, nWs, probe, sound, front)
            ELSE WAct(key, Steps(MinWs, sound))])
ProbeDocs ==
  {Doc("DRAFT", "none", <<>>)} \cup
  {ProbeDoc(shape, nWa, nWs, pc, kw, front) :
     shape \in {"waItems", "workActivities"}, nWa \in 0..MaxWA, nWs \in 0..MaxWS,
     pc \in ProbePcs, kw \in BOOLEAN, front \in BOOLEAN}

InitValidate ==
  /\ rev \in Revisions
  /\ arg \in ProbeDocs
  /\ out = NoOut
  /\ cpStore = [k \in CuKeys |-> NoBucket]
  /\ heap = [o \in {} |-> Null]
  /\ pending = {}
  /\ disk = NoDisk
  /\ resp = NoResp

\* POST /api/cp/validate
ValidateArg ==
  /\ ~out.done
  /\ out' = [done |-> TRUE, validation |-> Validate(rev, arg)]
  /\ resp' = [op |-> "validate", code |-> 200]
  /\ UNCHANGED << rev, disk, cpStore, heap, pending, arg >>

NextValidate ==
  \/ ValidateArg
  \/ \E k \in CuKeys : Put(k, arg)
  \/ \E k \in CuKeys, by \in LockedBys : Lock(k, by)

SpecValidate == InitValidate /\ [][NextValidate]_vars


\* ------------------------------------------------ generation of one draft
AllCus == UNION {[1..n -> {CuWa(c) : c \in Categories}] : n \in 1..MaxWA}
PlainCus == {Cu([i \in 1..n |-> CuWa("default")]) : n \in 1..MaxWA}
AllAis == {[wsMin |-> a] : a \in {AiAbsent, AiText} \cup {AiNum(n) : n \in 0..MaxWsMin}}
AllLlms == {LlmFail} \cup {LlmRows(n) : n \in 0..MaxLlmRows}
DraftInputs(r) ==
  IF r = "server.js"
  THEN UNION {{[cu |-> cu, ai |-> ai, llm |-> llm] :
                 ai \in AllAis, llm \in [1..Len(cu.wa) -> AllLlms]} : cu \in PlainCus}
  ELSE {[cu |-> Cu(was), ai |-> [wsMin |-> AiAbsent], llm |-> <<>>] : was \in AllCus}

InitDraft ==
  /\ rev \in Revisions
  /\ arg \in DraftInputs(rev)
  /\ out = NoOut
  /\ cpStore = [k \in CuKeys |-> NoBucket]
  /\ heap = [o \in {} |-> Null]
  /\ pending = {}
  /\ disk = NoDisk
  /\ resp = NoResp

\* generateCpDraft followed by validateCp, as POST /api/cp/draft runs them
GenerateDraft ==
  /\ ~out.done
  /\ LET cp == IF rev = "server.js" THEN generateCpDraft(arg.cu, arg.ai, arg.llm)
               ELSE generateCpDraft_r3(arg.cu)
     IN out' = [done |-> TRUE, cp |-> cp, validation |-> Validate(rev, cp)]
  /\ UNCHANGED << rev, disk, cpStore, heap, pending, resp, arg >>

NextDraft == GenerateDraft

SpecDraft == InitDraft /\ [][NextDraft]_vars

\* ============================================================ clustering
\* A card is {id, text}; a text is kept as its sequence of white-space
\* separated words.  Card ids are Date.now() values, so two cards of one
\* session can carry the same id, and ids never decrease along the list; an
\* id is kept as its rank among the ids of the session.
Card(id, text) == [id |-> id, text |-> text]
CardIds == 1..MaxCards

\* toLowerCase() and replace(/[^\p{L}\p{N}\s]/gu, " ") of one word
Norm(w) ==
  CASE w = "Record"      -> "record"
    [] w = "Log"         -> "log"
    [] w = "Prepare"     -> "prepare"
    [] w = "Attendance!" -> "attendance"
    [] OTHER             -> w
\* tokenize(t)
tokenize(t) == [i \in 1..Len(t) |-> Norm(t[i])]
SetOf(seq) == {seq[i] : i \in 1..Len(seq)}
\* jaccard(a, b) as the fraction << inter, union >>; union = 0 stands for 0
jaccard(a, b) ==
  LET inter == Cardinality(SetOf(a) \cap SetOf(b))
  IN << inter, Cardinality(SetOf(a)) + Cardinality(SetOf(b)) - inter >>
SimOverlap(sim, thr) == sim[1] > 0
\* sim >= similarityThreshold, the threshold being the fraction thr[1] / thr[2]
SimGeq(sim, thr) ==
  IF sim[2] = 0 THEN 0 >= thr[1] ELSE sim[1] * thr[2] >= thr[1] * sim[2]

\* the inner loop of the greedy grouping: j runs from i + 1 over the items
RECURSIVE GrowGroup(_, _, _, _, _, _)
GrowGroup(tokens, thr, i, j, group, used) ==
  IF j > Len(tokens) THEN [group |-> group, used |-> used]
  ELSE IF tokens[j].id \in used THEN GrowGroup(tokens, thr, i, j + 1, group, used)
  ELSE IF SimGeq(jaccard(tokens[i].tok, tokens[j].tok), thr)
       THEN GrowGroup(tokens, thr, i, j + 1, Append(group, j), used \cup {tokens[j].id})
       ELSE GrowGroup(tokens, thr, i, j + 1, group, used)

\* the outer loop: seed i, emit the group or release its ids
RECURSIVE Greedy(_, _, _, _, _, _)
Greedy(tokens, thr, minClusterSize, i, used, clusters) ==
  IF i > Len(tokens) THEN clusters
  ELSE IF tokens[i].id \in used
       THEN Greedy(tokens, thr, minClusterSize, i + 1, used, clusters)
  ELSE LET g == GrowGroup(tokens, thr, i, i + 1, << i >>, used \cup {tokens[i].id})
           ids == [n \in 1..Len(g.group) |-> tokens[g.group[n]].id]
       IN IF Len(g.group) >= minClusterSize
          THEN Greedy(tokens, thr, minClusterSize, i + 1, g.used,
                      Append(clusters, [cardIds |-> ids]))
          ELSE Greedy(tokens, thr, minClusterSize, i + 1, g.used \ SetOf(ids), clusters)

\* POST /api/cluster/preview, lexical (server.js, part_003): the response
previewLexical(cards, thr, minClusterSize) ==
  LET items == SelectSeq(cards, LAMBDA c : c.text # <<>>)
      tokens == [n \in 1..Len(items) |-> [id |-> items[n].id, tok |-> tokenize(items[n].text)]]
      clusters == Greedy(tokens, thr, minClusterSize, 1, {}, <<>>)
      assignedIds == UNION {SetOf(clusters[n].cardIds) : n \in 1..Len(clusters)}
      ids == [n \in 1..Len(cards) |-> cards[n].id]
  IN IF Len(items) = 0 THEN [clusters |-> <<>>, unassigned |-> ids]
     ELSE [clusters |-> clusters,
           unassigned |-> SelectSeq(ids, LAMBDA x : x \notin assignedIds)]

\* ------------------------------------------------------------ vector mode
\* The embeddings are kept as the graph they give: edges holds the pairs
\* {i, j} of items with cosineSim(vectors[i], vectors[j]) >= threshold.
\* the vertices reachable from those of set c
RECURSIVE Reach(_, _)
Reach(c, edges) ==
  LET d == c \cup {v \in UNION edges : \E u \in c : {u, v} \in edges}
  IN IF d = c THEN c ELSE Reach(d, edges)
Ascending(set) ==
  LET RECURSIVE Asc(_)
      Asc(r) == IF r = {} THEN <<>>
                ELSE LET m == CHOOSE x \in r : \A y \in r : x <= y
                     IN << m >> \o Asc(r \ {m})
  IN Asc(set)
\* buildGraphClusters(vectors, threshold): the components in the order of
\* their least vertex; the vertices of one component are kept in ascending
\* order (the code leaves them in the order of its depth-first visit)
RECURSIVE Components(_, _, _, _)
Components(n, edges, i, seen) ==
  IF i > n THEN <<>>
  ELSE IF i \in seen THEN Components(n, edges, i + 1, seen)
  ELSE LET comp == Reach({i}, edges)
       IN << Ascending(comp) >> \o Components(n, edges, i + 1, seen \cup comp)
buildGraphClusters(n, edges) == Components(n, edges, 1, {})

\* Array.prototype.sort((a, b) => size(b) - size(a)): stable, larger first;
\* sizes[k] is the sort key of seq[k]
SortBySizeDesc(seq, sizes) ==
  LET pos(k) == 1 + Cardinality({m \in 1..Len(seq) :
                      \/ sizes[m] > sizes[k]
                      \/ (sizes[m] = sizes[k] /\ m < k)})
  IN [p \in 1..Len(seq) |-> seq[CHOOSE k \in 1..Len(seq) : pos(k) = p]]

\* comps.filter(size >= minClusterSize).sort(by size, larger first).slice(0, maxClusters)
Valid(comps, minClusterSize, maxClusters) ==
  LET big == SelectSeq(comps, LAMBDA c : Len(c) >= minClusterSize)
  IN SliceTo(SortBySizeDesc(big, [k \in 1..Len(big) |-> Len(big[k])]), maxClusters)

\* A raw cluster carries its members under the field key ("items" or
\* "cardIds"); members are kept by their id.
RawCluster(key, ids) == [key |-> key, ids |-> ids]

FilterSeenNone(ids, seenIds) == ids
\* the items of cl that postProcessClusters keeps, seenIds being the keys seen
RECURSIVE FilterSeen(_, _)
FilterSeen(ids, seenIds) ==
  IF ids = <<>> THEN <<>>
  ELSE IF Head(ids) \in seenIds THEN FilterSeen(Tail(ids), seenIds)
  ELSE << Head(ids) >> \o FilterSeen(Tail(ids), seenIds \cup {Head(ids)})
RECURSIVE Cleaned(_, _)
Cleaned(rawClusters, seenIds) ==
  IF rawClusters = <<>> THEN <<>>
  ELSE LET cl == Head(rawClusters)
           items == IF cl.key = "items" THEN cl.ids ELSE <<>>
           filteredItems == FilterSeen(items, seenIds)
           rest == Cleaned(Tail(rawClusters), seenIds \cup SetOf(filteredItems))
       IN IF Len(filteredItems) = 0 THEN rest
          ELSE << [cl EXCEPT !.key = "items", !.ids = filteredItems] >> \o rest
\* postProcessClusters(rawClusters, {keepEmptyClusters: false, sortByCountDesc: true}).clusters
postProcessClusters(rawClusters) ==
  LET cleaned == Cleaned(rawClusters, {})
  IN SortBySizeDesc(cleaned, [k \in 1..Len(cleaned) |-> Len(cleaned[k].ids)])

\* the edges among the items kept, renumbered by their place among them
KeptEdges(keep, edges) ==
  LET place(i) == Cardinality({k \in keep : k <= i})
  IN {{place(e[1]), place(e[2])} : e \in {ij \in keep \X keep : {ij[1], ij[2]} \in edges}}

\* the clustering common to the two vector-mode handlers: filtered is the
\* list of {id, text} sent to the embedding service, key the field the raw
\* clusters carry their members in
vectorClusters(filtered, edges, minClusterSize, maxClusters, key) ==
  LET comps == buildGraphClusters(Len(filtered), edges)
      valid == Valid(comps, minClusterSize, maxClusters)
      clustered == UNION {SetOf(valid[k]) : k \in 1..Len(valid)}
      idx == SelectSeq([i \in 1..Len(filtered) |-> i], LAMBDA i : i \notin clustered)
      rawClusters == [k \in 1..Len(valid) |->
                        RawCluster(key, [m \in 1..Len(valid[k]) |-> filtered[valid[k][m]].id])]
  IN [clusters |-> postProcessClusters(rawClusters),
      unassigned |-> [m \in 1..Len(idx) |-> filtered[idx[m]].id]]

\* POST /api/cluster/preview, vector (part_004): the response
previewVector(cards, edges, minClusterSize, maxClusters) ==
  LET keep == {i \in 1..Len(cards) : cards[i].text # <<>>}
      filtered == SelectSeq(cards, LAMBDA c : c.text # <<>>)
  IN IF Len(cards) = 0 THEN [clusters |-> <<>>, unassigned |-> <<>>]
     ELSE IF Len(filtered) = 0
     THEN [clusters |-> <<>>, unassigned |-> [n \in 1..Len(cards) |-> cards[n].id]]
     ELSE vectorClusters(filtered, KeptEdges(keep, edges), minClusterSize, maxClusters, "items")

\* POST /cluster/suggest/:sessionId (part_001): the response
clusterSuggest(cards, edges, minClusterSize, maxClusters) ==
  IF Len(cards) = 0 THEN [clusters |-> <<>>, unassigned |-> <<>>]
  ELSE vectorClusters(cards, edges, minClusterSize, maxClusters, "cardIds")

\* -------------------------------------------------- one clustering run
LexTexts ==
  { << "Record", "attendance" >>, << "Log", "attendance", "sheet" >>,
    << "Prepare", "annual", "budget" >>, << "record", "Attendance!" >> }
\* a card of part_004 / part_001 can have a blank activity, trimmed to ""
VecTexts == { <<>>, << "Record", "attendance" >> }
CardSeqs(texts) ==
  UNION {{cs \in [1..n -> {Card(i, t) : i \in CardIds, t \in texts}] :
            \A a \in 1..n : cs[a].id - (IF a = 1 THEN 0 ELSE cs[a - 1].id) \in
                               (IF a = 1 THEN {1} ELSE {0, 1})} : n \in 0..MaxCards}
\* similarityThreshold as a fraction
Thresholds == { << 0, 1 >>, << 1, 4 >>, << 3, 10 >>, << 1, 1 >> }
PairsOf(n) == {{i, j} : i, j \in 1..n} \ {{i} : i \in 1..n}
ClusterInput(mode, cards, thr, edges, minClusterSize, maxClusters) ==
  [mode |-> mode, cards |-> cards, similarityThreshold |-> thr, edges |-> edges,
   minClusterSize |-> minClusterSize, maxClusters |-> maxClusters]
\* the CP store takes no part in a clustering run
InitCluster ==
  /\ rev = "server.js"
  /\ \/ \E cs \in CardSeqs(LexTexts), thr \in Thresholds, m \in 0..MaxCards :
          arg = ClusterInput("lexical", cs, thr, {}, m, 0)
     \/ \E cs \in CardSeqs(VecTexts), mode \in {"vector", "suggest"} :
          \E e \in SUBSET PairsOf(Len(cs)), m \in 1..MaxCards, x \in 1..2 :
            arg = ClusterInput(mode, cs, << 0, 1 >>, e, m, x)
  /\ out = NoOut
  /\ cpStore = [k \in CuKeys |-> NoBucket]
  /\ heap = [o \in {} |-> Null]
  /\ pending = {}
  /\ disk = NoDisk
  /\ resp = NoResp

Answer(r) == [done |-> TRUE, clusters |-> r.clusters, unassigned |-> r.unassigned]

\* POST /api/cluster/preview of server.js and part_003
ClusterLexical ==
  /\ ~out.done /\ arg.mode = "lexical"
  /\ out' = Answer(previewLexical(arg.cards, arg.similarityThreshold, arg.minClusterSize))
  /\ UNCHANGED << rev, disk, cpStore, heap, pending, resp, arg >>
\* POST /api/cluster/preview of part_004
ClusterVector ==
  /\ ~out.done /\ arg.mode = "vector"
  /\ out' = Answer(previewVector(arg.cards, arg.edges, arg.minClusterSize, arg.maxClusters))
  /\ UNCHANGED << rev, disk, cpStore, heap, pending, resp, arg >>
\* POST /cluster/suggest/:sessionId of part_001
ClusterSuggest ==
  /\ ~out.done /\ arg.mode = "suggest"
  /\ out' = Answer(clusterSuggest(arg.cards, arg.edges, arg.minClusterSize, arg.maxClusters))
  /\ UNCHANGED << rev, disk, cpStore, heap, pending, resp, arg >>

NextCluster == ClusterLexical \/ ClusterVector \/ ClusterSuggest

SpecCluster == InitCluster /\ [][NextCluster]_vars

\* ============================================================ CU index
\* The external site: arg.pages[p] is what the crawl of list page p finds, the
\* CUs of the JDs of its CPs in crawl order.  A CU is kept by its jdId, its
\* cuCode ("" when the page shows none) and whether it has a title.
SiteCu(jdId, cuCode, cuTitle) == [jdId |-> jdId, cuCode |-> cuCode, cuTitle |-> cuTitle]
PageContents ==
  { <<>>,
    << SiteCu(1, "A", TRUE) >>,
    << SiteCu(1, "A", TRUE), SiteCu(2, "B", TRUE) >>,
    << SiteCu(3, "B", TRUE), SiteCu(4, "C", FALSE) >>,
    << SiteCu(5, "", TRUE), SiteCu(6, "", TRUE) >> }

\* the index after the CUs of one page: a CU without a title is passed over,
\* and so is one whose cuCode is in the index
RECURSIVE AddCusAll(_, _)
AddCusAll(index, cus) ==
  IF cus = <<>> THEN index
  ELSE IF ~Head(cus).cuTitle THEN AddCusAll(index, Tail(cus))
  ELSE AddCusAll(Append(index, [jdId |-> Head(cus).jdId, cuCode |-> Head(cus).cuCode]),
                 Tail(cus))
RECURSIVE AddCusByJd(_, _)
AddCusByJd(index, cus) ==
  IF cus = <<>> THEN index
  ELSE IF ~Head(cus).cuTitle THEN AddCusByJd(index, Tail(cus))
  ELSE IF \E n \in 1..Len(index) : index[n].jdId = Head(cus).jdId
       THEN AddCusByJd(index, Tail(cus))
  ELSE AddCusByJd(Append(index, [jdId |-> Head(cus).jdId, cuCode |-> Head(cus).cuCode]),
                  Tail(cus))
RECURSIVE AddCus(_, _)
AddCus(index, cus) ==
  IF cus = <<>> THEN index
  ELSE IF ~Head(cus).cuTitle THEN AddCus(index, Tail(cus))
  ELSE IF \E n \in 1..Len(index) : index[n].cuCode = Head(cus).cuCode
       THEN AddCus(index, Tail(cus))
  ELSE AddCus(Append(index, [jdId |-> Head(cus).jdId, cuCode |-> Head(cus).cuCode]),
              Tail(cus))

\* the index after the loop over pages p..toPage
RECURSIVE CrawlPages(_, _, _, _)
CrawlPages(pages, index, p, toPage) ==
  IF p > toPage THEN index
  ELSE CrawlPages(pages, AddCus(index, pages[p]), p + 1, toPage)

InitCatalog ==
  /\ rev \in Revisions
  /\ arg \in [pages : [1..MaxPage -> PageContents]]
  /\ out = [done |-> FALSE, crawled |-> {}]
  /\ cpStore = [k \in CuKeys |-> NoBucket]
  /\ heap = [o \in {} |-> Null]
  /\ pending = {}
  /\ resp = NoResp
  /\ disk = NoDisk

\* POST /api/myspike/index/build {fromPage, toPage}; failAt is the page whose
\* crawl throws in this run (0: none).  out.crawled records the pages crawled
\* by the builds that answered 200.
Build(fromPage, toPage, failAt) ==
  /\ IF failAt \in fromPage..toPage
     THEN /\ resp' = [op |-> "build", code |-> 500, added |-> 0]
          /\ UNCHANGED << disk, out >>
     ELSE LET index == CrawlPages(arg.pages, disk.index, fromPage, toPage)
          IN /\ disk' = [index |-> index,
                         meta |-> [lastPage |-> IF fromPage <= toPage
                                                THEN Max(disk.meta.lastPage, toPage)
                                                ELSE disk.meta.lastPage,
                                   totalCU |-> Len(index)]]
             /\ resp' = [op |-> "build", code |-> 200,
                         added |-> Len(index) - Len(disk.index)]
             /\ out' = [done |-> TRUE, crawled |-> out.crawled \cup (fromPage..toPage)]
  /\ UNCHANGED << rev, cpStore, heap, pending, arg >>

NextCatalog ==
  \E fromPage, toPage \in 1..MaxPage, failAt \in 0..MaxPage : Build(fromPage, toPage, failAt)

SpecCatalog == InitCatalog /\ [][NextCatalog]_vars

\* ======================================================= /api/s2/compare
\* A cosine similarity is kept in units of 0.00001.  RawScores are the values
\* the embeddings of one CU and one index record can give.
RawScores == {0 - 20000, 0, 77994, 77996, 100000}
\* Number(score.toFixed(4)), in units of 0.0001
Fixed4(x) == IF x >= 0 THEN (x + 5) \div 10 ELSE 0 - ((5 - x) \div 10)
\* Math.min(a, x) for a number a
MathMin(a, x) == IF x.nan THEN NaN ELSE Num(Min(a, x.n))
\* Number(options.topK ?? 3)
TopKArg(v) ==
  IF v.kind = "absent" THEN Num(3) ELSE IF v.kind = "text" THEN NaN ELSE Num(v.n)
\* Math.max(1, Math.min(10, Number(options.topK ?? 3)))
TopKPlain(v) == TopKArg(v)
TopK(v) == MathMax(1, MathMin(10, TopKArg(v)))

\* scored.sort((a, b) => b.score - a.score): stable, larger first
Scored(raw) == [j \in 1..Len(raw) |-> [item |-> j, score |-> Fixed4(raw[j])]]
ScoreOf(m) == m.score

\* the result for one CU; raw[j] is its similarity to index record j, the
\* threshold is in units of 0.00001
compareOne(raw, topK, thresholdAda) ==
  LET unsorted == Scored(raw)
      scored == SortBySizeDesc(unsorted, [k \in 1..Len(unsorted) |-> ScoreOf(unsorted[k])])
      top == SliceNum(scored, topK)
      best == IF Len(top) > 0 THEN top[1].score ELSE 0
  IN [decision |-> [status |-> IF best * 10 >= thresholdAda THEN "ADA" ELSE "TIADA",
                    bestScore |-> best],
      matches |-> top]

TopKs == {AiAbsent, AiText, AiNum(0), AiNum(1), AiNum(2), AiNum(11)}
ThresholdsAda == {70000, 77998, 78000}

\* arg.index is the number of records of the embedded index, arg.cus[i][j] the
\* similarity of CU i of the request to record j
InitCompare ==
  /\ rev \in Revisions
  /\ \E n \in 0..MaxCatalog, c \in 1..2 :
       \E cus \in [1..c -> [1..n -> RawScores]], k \in TopKs, t \in ThresholdsAda :
         arg = [index |-> n, cus |-> cus, topK |-> k, thresholdAda |-> t]
  /\ out = NoOut
  /\ cpStore = [k \in CuKeys |-> NoBucket]
  /\ heap = [o \in {} |-> Null]
  /\ pending = {}
  /\ resp = NoResp
  /\ disk = NoDisk

\* POST /api/s2/compare; embOk: the embedding service answers
Compare(embOk) ==
  /\ ~out.done
  /\ IF ~embOk
     THEN /\ resp' = [op |-> "compare", code |-> 500]
          /\ out' = [done |-> TRUE, results |-> <<>>]
     ELSE IF arg.index = 0
     THEN /\ resp' = [op |-> "compare", code |-> 400]
          /\ out' = [done |-> TRUE, results |-> <<>>]
     ELSE /\ resp' = [op |-> "compare", code |-> 200]
          /\ out' = [done |-> TRUE,
                     results |-> [i \in 1..Len(arg.cus) |->
                        compareOne(arg.cus[i], TopK(arg.topK), arg.thresholdAda)]]
  /\ UNCHANGED << rev, disk, cpStore, heap, pending, arg >>

NextCompare == \E embOk \in BOOLEAN : Compare(embOk)

SpecCompare == InitCompare /\ [][NextCompare]_vars

\* ==================================================== /api/cp/ai/seed-ws
\* What the text-generation service does for one request:
\*   "nokey"     OPENAI_API_KEY is not set
\*   "throws"    the call rejects (network error, timeout)
\*   "httpError" the service answers with an error status
\*   "badJson"   the content of the answer is not JSON
\*   "noList"    the content is a JSON object without a workActivities array
\*   "rows"      the content carries the WS/PC rows of every WA
Services == {"nokey", "throws", "httpError", "badJson", "noList", "rows"}

\* The outcome of the handler: the status code, the mode of the answer and
\* the source of the work steps of each WA of the answer.
SeedAnswer(code, mode, was) == [code |-> code, mode |-> mode, workActivities |-> was]
SeedFrom(source, waCount) == [i \in 1..waCount |-> source]

\* server.js: the SDK call rejects on a network error and on an error status
seedWs(svc, waCount) ==
  CASE svc = "nokey"   -> SeedAnswer(200, "fallback_no_key", SeedFrom("fallbackSeed", waCount))
    [] svc \in {"throws", "httpError"} -> SeedAnswer(500, "error", <<>>)
    [] svc = "badJson" -> SeedAnswer(200, "fallback_bad_json", SeedFrom("fallbackSeed", waCount))
    [] svc = "noList"  -> SeedAnswer(200, "ai", <<>>)
    [] OTHER           -> SeedAnswer(200, "ai", SeedFrom("ai", waCount))
\* part_003: fetch rejects on a network error only
seedWs_r3(svc, waCount) ==
  CASE svc = "nokey"     -> SeedAnswer(200, "fallback", SeedFrom("fallbackSeed", waCount))
    [] svc = "throws"    -> SeedAnswer(500, "error", <<>>)
    [] svc = "httpError" -> SeedAnswer(200, "fallback_after_ai_fail", SeedFrom("fallbackSeed", waCount))
    [] svc = "badJson"   -> SeedAnswer(200, "fallback_after_bad_json", SeedFrom("fallbackSeed", waCount))
    [] svc = "noList"    -> SeedAnswer(200, "ai", <<>>)
    [] OTHER             -> SeedAnswer(200, "ai", SeedFrom("ai", waCount))

InitSeed ==
  /\ rev \in Revisions
  /\ \E op \in {"seed", "draft"}, n \in 1..MaxWA, svc \in Services :
       arg = [op |-> op, waCount |-> n, svc |-> svc]
  /\ out = NoOut
  /\ cpStore = [k \in CuKeys |-> NoBucket]
  /\ heap = [o \in {} |-> Null]
  /\ pending = {}
  /\ resp = NoResp
  /\ disk = NoDisk

\* POST /api/cp/ai/seed-ws {waList} with a non-empty waList
SeedWs ==
  /\ ~out.done /\ arg.op = "seed"
  /\ LET a == IF rev = "server.js" THEN seedWs(arg.svc, arg.waCount)
              ELSE seedWs_r3(arg.svc, arg.waCount)
     IN /\ resp' = [op |-> "seed", code |-> a.code]
        /\ out' = [done |-> TRUE, mode |-> a.mode, workActivities |-> a.workActivities]
  /\ UNCHANGED << rev, disk, cpStore, heap, pending, arg >>

\* generateCpDraft of POST /api/cp/draft; callLLM catches every error of the
\* service and returns null, a text that is not JSON is parsed to null, and
\* part_003 asks no service
SeedDraft ==
  /\ ~out.done /\ arg.op = "draft"
  /\ LET cu == Cu([i \in 1..arg.waCount |-> CuWa("default")])
         llm == [i \in 1..arg.waCount |->
                   IF arg.svc = "rows" THEN LlmRows(MinWs) ELSE LlmFail]
         cp == IF rev = "server.js" THEN generateCpDraft(cu, [wsMin |-> AiAbsent], llm)
               ELSE generateCpDraft_r3(cu)
     IN /\ resp' = [op |-> "draft", code |-> 200]
        /\ out' = [done |-> TRUE, mode |-> "draft",
                   workActivities |-> [i \in 1..Len(cp.wa) |->
                      IF Len(cp.wa[i].steps) >= MinWs THEN "template" ELSE "none"]]
  /\ UNCHANGED << rev, disk, cpStore, heap, pending, arg >>

NextSeed == SeedWs \/ SeedDraft

SpecSeed == InitSeed /\ [][NextSeed]_vars

\* ============================================== MySPIKE embeddings cache
\* MYSPIKE_CU_ITEMS and MYSPIKE_CU_EMB; both null (set: FALSE) until the
\* first request, and always assigned together.
\* The cache is kept in out, the CU index in disk.index, and the requests
\* that wait at an await in pending.
NoCache == [set |-> FALSE, items |-> <<>>, emb |-> <<>>]
Cache(items, emb) == [set |-> TRUE, items |-> items, emb |-> emb]
\* the embedding service answers one vector for each text it is sent
Embeddings(items) == [i \in 1..Len(items) |-> << "emb", items[i].cuCode >>]
CatalogCu(n) == [jdId |-> n, cuCode |-> n]
CacheFreshNever(cache, items) == FALSE
\* MYSPIKE_CU_ITEMS && MYSPIKE_CU_EMB && MYSPIKE_CU_ITEMS.length === items.length
CacheFresh(cache, items) ==
  /\ cache.set
  /\ Len(cache.items) = Len(items)
RequestIds == 1..MaxRequests
AtCatalog(id, items) == [id |-> id, stage |-> "catalog", items |-> items]
AtQuery(id, cache) ==
  [id |-> id, stage |-> "query", myItems |-> cache.items, myEmb |-> cache.emb]
\* the check of the cache after ensureMyspikeCuEmbeddings has returned
Incomplete(r, myItems, myEmb) ==
  \/ Len(myItems) = 0
  \/ r = "server.js" /\ (Len(myEmb) = 0 \/ Len(myItems) # Len(myEmb))

InitEmbed ==
  /\ rev \in Revisions
  /\ \E n \in 0..MaxCatalog :
       disk = [index |-> [i \in 1..n |-> CatalogCu(i)],
               meta |-> [lastPage |-> 0, totalCU |-> n]]
  /\ out = NoCache
  /\ cpStore = [k \in CuKeys |-> NoBucket]
  /\ heap = [o \in {} |-> Null]
  /\ pending = {}
  /\ resp = NoResp
  /\ arg = NoArg

\* POST /api/s2/compare with a non-empty cus, up to its first await that
\* waits for the embedding service; hasKey: OPENAI_API_KEY is set
CompareBegin(id, hasKey) ==
  /\ \A p \in pending : p.id # id
  /\ LET items == disk.index IN
     IF Len(items) = 0
     THEN /\ out' = Cache(<<>>, <<>>)
          /\ resp' = [op |-> "compare", code |-> 400, id |-> id]
          /\ UNCHANGED pending
     ELSE IF CacheFresh(out, items)
     THEN IF Incomplete(rev, out.items, out.emb)
          THEN /\ resp' = [op |-> "compare", code |-> 400, id |-> id]
               /\ UNCHANGED << out, pending >>
          ELSE /\ pending' = pending \cup {AtQuery(id, out)}
               /\ UNCHANGED << out, resp >>
     ELSE IF ~hasKey
     THEN /\ resp' = [op |-> "compare", code |-> 500, id |-> id]
          /\ UNCHANGED << out, pending >>
     ELSE /\ pending' = pending \cup {AtCatalog(id, items)}
          /\ UNCHANGED << out, resp >>
  /\ UNCHANGED << rev, disk, cpStore, heap, arg >>

\* the embedding service answers the catalog texts of request p (the index
\* is smaller than one batch of 200); ok: it answers with the vectors
CatalogEmbedded(p, ok) ==
  /\ p \in pending /\ p.stage = "catalog"
  /\ IF ~ok
     THEN /\ resp' = [op |-> "compare", code |-> 500, id |-> p.id]
          /\ pending' = pending \ {p}
          /\ UNCHANGED out
     ELSE LET cache == Cache(p.items, Embeddings(p.items)) IN
          /\ out' = cache
          /\ IF Incomplete(rev, cache.items, cache.emb)
             THEN /\ resp' = [op |-> "compare", code |-> 400, id |-> p.id]
                  /\ pending' = pending \ {p}
             ELSE /\ pending' = (pending \ {p}) \cup {AtQuery(p.id, cache)}
                  /\ UNCHANGED resp
  /\ UNCHANGED << rev, disk, cpStore, heap, arg >>

\* the embedding service answers the texts of the request's own CUs, and the
\* handler scores them against the cached items it read before the await
QueryEmbedded(p, ok) ==
  /\ p \in pending /\ p.stage = "query"
  /\ resp' = IF ok THEN [op |-> "compare", code |-> 200, id |-> p.id,
                         scored |-> Len(p.myItems), vectors |-> Len(p.myEmb)]
             ELSE [op |-> "compare", code |-> 500, id |-> p.id]
  /\ pending' = pending \ {p}
  /\ UNCHANGED << rev, disk, out, cpStore, heap, arg >>

\* a run of POST /api/myspike/index/build saves an index with one more CU
IndexBuilt ==
  /\ Len(disk.index) < MaxCatalog
  /\ LET index == Append(disk.index, CatalogCu(Len(disk.index) + 1))
     IN disk' = [index |-> index, meta |-> [lastPage |-> disk.meta.lastPage + 1,
                                            totalCU |-> Len(index)]]
  /\ resp' = [op |-> "build", code |-> 200, id |-> 0]
  /\ UNCHANGED << rev, out, cpStore, heap, pending, arg >>

NextEmbed ==
  \/ \E id \in RequestIds, hasKey \in BOOLEAN : CompareBegin(id, hasKey)
  \/ \E p \in pending, ok \in BOOLEAN : CatalogEmbedded(p, ok)
  \/ \E p \in pending, ok \in BOOLEAN : QueryEmbedded(p, ok)
  \/ IndexBuilt

SpecEmbed == InitEmbed /\ [][NextEmbed]_vars

\* ========================================= session cards and cluster apply
\* The cards of one session (sessions[sid].cards), the CUs of the last apply
\* (sessions[sid].cus) and the clock that gives the card ids are kept in out;
\* clusterStore[sid] is kept in arg; a cluster run that waits for the
\* text-generation service is in pending.
NoTag == ""
\* a card made by POST /api/s2/seed-wa: {id, activity: wa, wa, title: wa}
SeedCard(id, wa) == [id |-> id, activity |-> wa, wa |-> wa, cuTitle |-> NoTag]
\* a card made by POST /cards/:session: {id, name, activity}
PostedCard(id, activity) == [id |-> id, activity |-> activity, wa |-> "", cuTitle |-> NoTag]
getCardText(card) == IF card.activity # "" THEN card.activity ELSE card.wa
NoSession == [cards |-> <<>>, cus |-> <<>>, clock |-> 1]
NoClusterResult == [set |-> FALSE, clusters |-> <<>>]

\* what the text-generation service may list in one cluster: ids of cards,
\* the same id as another cluster, an id that is no card (0), nothing
ListedIds == { <<>>, << 1 >>, << 1, 2 >>, << 2, 0 >> }
ClusterTitles == << "T1", "T2" >>
\* the answers of the service: up to two clusters, titled in order
ClusterAnswers ==
  { [i \in 1..n |-> [title |-> ClusterTitles[i], cardIds |-> ids[i]]] :
      n \in 0..2, ids \in [1..2 -> ListedIds] }

\* parsed.clusters.map(...).filter((cl) => cl.title && cl.cardIds.length)
StoredClusters(answer) ==
  SelectSeq(answer, LAMBDA cl : cl.title # "" /\ Len(cl.cardIds) > 0)

\* the card with this id in byId (the last one when several have the id)
HasCard(cards, id) == \E i \in 1..Len(cards) : cards[i].id = id
CardById(cards, id) ==
  cards[CHOOSE i \in 1..Len(cards) :
          cards[i].id = id /\ \A j \in 1..Len(cards) : cards[j].id = id => j <= i]

\* last.clusters.map((cl, i) => ({cuId, cuTitle, activities}))
AppliedCus(clusters, cards) ==
  [i \in 1..Len(clusters) |->
     [cuId |-> i, cuTitle |-> clusters[i].title,
      activities |-> [j \in 1..Len(clusters[i].cardIds) |->
         LET id == clusters[i].cardIds[j]
         IN [waId |-> j,
             waTitle |-> IF HasCard(cards, id) THEN getCardText(CardById(cards, id))
                         ELSE "Aktiviti",
             cardIds |-> << id >>]]]]

\* cuByCardId.get(String(c.id)): the title of the last CU that lists the id,
\* or undefined (NoTag)
CuOfCard(cus, id) ==
  LET hits == {i \in 1..Len(cus) :
                 \E j \in 1..Len(cus[i].activities) : cus[i].activities[j].cardIds = << id >>}
  IN IF hits = {} THEN NoTag
     ELSE cus[CHOOSE i \in hits : \A k \in hits : k <= i].cuTitle

\* cards.forEach((c) => { const t = cuByCardId.get(String(c.id)); if (t) c.cuTitle = t; })
TagCards(cards, cus) ==
  [i \in 1..Len(cards) |->
     LET t == CuOfCard(cus, cards[i].id)
     IN IF t # NoTag THEN [cards[i] EXCEPT !.cuTitle = t] ELSE cards[i]]

\* buildCpcForSession: the CUs by the tags of the cards, each with the texts
\* of its cards, in the order of the first card of each tag
CpcTitles(cards) ==
  LET tagged == SelectSeq(cards, LAMBDA c : c.cuTitle # NoTag /\ c.activity # "")
      firsts == SelectSeq([i \in 1..Len(tagged) |->
                    [i |-> i, first |-> \A j \in 1..(i - 1) : tagged[j].cuTitle # tagged[i].cuTitle]],
                  LAMBDA x : x.first)
  IN [k \in 1..Len(firsts) |-> tagged[firsts[k].i].cuTitle]
buildCpcForSession(cards) ==
  LET titles == CpcTitles(cards)
  IN [k \in 1..Len(titles) |->
        [cuTitle |-> titles[k],
         wa |-> LET mine == SelectSeq(cards, LAMBDA c : c.cuTitle = titles[k] /\ c.activity # "")
                IN [m \in 1..Len(mine) |-> mine[m].activity]]]

InitCards ==
  /\ rev \in Revisions
  /\ out = NoSession
  /\ arg = NoClusterResult
  /\ cpStore = [k \in CuKeys |-> NoBucket]
  /\ heap = [o \in {} |-> Null]
  /\ pending = {}
  /\ resp = NoResp
  /\ disk = NoDisk

\* POST /api/s2/seed-wa {waList} with n titles: the session's cards are
\* replaced by n new cards with the ids now, now + 1, ...
SeedWa(n) ==
  /\ out.clock + n - 1 <= MaxClock
  /\ out' = [out EXCEPT !.cards = [i \in 1..n |-> SeedCard(out.clock + i - 1, << "wa", i >>)],
                        !.clock = out.clock + n]
  /\ resp' = [op |-> "seed-wa", code |-> 200]
  /\ UNCHANGED << rev, disk, cpStore, heap, pending, arg >>

\* POST /cards/:session {name, activity}
CardPost(activity) ==
  /\ out.clock <= MaxClock
  /\ out' = [out EXCEPT !.cards = Append(out.cards, PostedCard(out.clock, activity)),
                        !.clock = out.clock + 1]
  /\ resp' = [op |-> "card-post", code |-> 200]
  /\ UNCHANGED << rev, disk, cpStore, heap, pending, arg >>

\* PATCH /cards/:session/:id {cuTitle}; the body carries no cu and no wa
CardPatch(id, cuTitle) ==
  /\ IF ~HasCard(out.cards, id)
     THEN /\ resp' = [op |-> "card-patch", code |-> 404]
          /\ UNCHANGED out
     ELSE LET idx == CHOOSE i \in 1..Len(out.cards) :
                       out.cards[i].id = id /\ \A j \in 1..(i - 1) : out.cards[j].id # id
              old == out.cards[idx]
          IN /\ out' = [out EXCEPT !.cards[idx].cuTitle =
                                      IF cuTitle # "" THEN cuTitle ELSE old.cuTitle]
             /\ resp' = [op |-> "card-patch", code |-> 200]
  /\ UNCHANGED << rev, disk, cpStore, heap, pending, arg >>

\* POST /api/cluster/run, up to the await of the text-generation service
\* (OPENAI_API_KEY is set; no live board is kept in S3)
ClusterRunBegin ==
  /\ pending = {}
  /\ IF Len(out.cards) < MinCards
     THEN /\ resp' = [op |-> "cluster-run", code |-> 400]
          /\ UNCHANGED pending
     ELSE /\ pending' = {[op |-> "cluster-run"]}
          /\ UNCHANGED resp
  /\ UNCHANGED << rev, disk, cpStore, heap, out, arg >>

\* POST /api/cluster/run, from the answer of the service to the response;
\* valid: the answer is JSON with a clusters array
ClusterRunFinish(valid, answer) ==
  /\ pending # {}
  /\ pending' = {}
  /\ IF ~valid
     THEN /\ resp' = [op |-> "cluster-run", code |-> 500]
          /\ UNCHANGED arg
     ELSE /\ arg' = [set |-> TRUE, clusters |-> StoredClusters(answer)]
          /\ resp' = [op |-> "cluster-run", code |-> 200]
  /\ UNCHANGED << rev, disk, cpStore, heap, out >>

\* POST /api/cluster/apply
ClusterApply ==
  /\ IF ~arg.set \/ Len(arg.clusters) = 0
     THEN /\ resp' = [op |-> "cluster-apply", code |-> 400]
          /\ UNCHANGED out
     ELSE LET cus == AppliedCus(arg.clusters, out.cards)
          IN /\ out' = [out EXCEPT !.cus = cus, !.cards = TagCards(out.cards, cus)]
             /\ resp' = [op |-> "cluster-apply", code |-> 200]
  /\ UNCHANGED << rev, disk, cpStore, heap, pending, arg >>

NextCards ==
  \/ \E n \in {1, MinCards} : SeedWa(n)
  \/ CardPost("posted")
  \/ \E id \in 1..2, cuTitle \in {"", "X"} : CardPatch(id, cuTitle)
  \/ ClusterRunBegin
  \/ \E valid \in BOOLEAN, answer \in ClusterAnswers : ClusterRunFinish(valid, answer)
  \/ ClusterApply

SpecCards == InitCards /\ [][NextCards]_vars

\* =================================================== live board (S3)
\* The object liveboard.json of one session in the bucket is kept in disk
\* (exists: the object is there; cards: the ids of board.cards), the append
\* requests that wait for an answer of S3 in pending, and the ids of the
\* cards whose append was answered 200 in out.  A request is named by the id
\* of its new card (crypto.randomUUID()).
NoBoard == [exists |-> FALSE, cards |-> <<>>]
AtHead(id) == [id |-> id, stage |-> "head"]
AtGet(id) == [id |-> id, stage |-> "get"]
\* nextBoard = {...board, cards: [...cards, newCard]} on its way to S3
AtPut(id, cards) == [id |-> id, stage |-> "put", cards |-> Append(cards, id)]

InitBoard ==
  /\ rev = "server.js"
  /\ disk = NoBoard
  /\ out = [started |-> {}, acked |-> {}]
  /\ arg = NoArg
  /\ cpStore = [k \in CuKeys |-> NoBucket]
  /\ heap = [o \in {} |-> Null]
  /\ pending = {}
  /\ resp = NoResp

\* POST /api/liveboard/:sessionId/append {panelName, activity}, up to the
\* await of s3Exists
AppendBegin(id) ==
  /\ id \notin out.started
  /\ out' = [out EXCEPT !.started = @ \cup {id}]
  /\ pending' = pending \cup {AtHead(id)}
  /\ UNCHANGED << rev, disk, cpStore, heap, resp, arg >>

\* S3 answers the HeadObject of request p; the handler goes on to s3GetJson
\* when the object exists and to s3PutJson of the default board otherwise
AppendHead(p) ==
  /\ p \in pending /\ p.stage = "head"
  /\ pending' = (pending \ {p}) \cup
                  {IF disk.exists THEN AtGet(p.id) ELSE AtPut(p.id, <<>>)}
  /\ UNCHANGED << rev, disk, cpStore, heap, resp, arg, out >>

\* S3 answers the GetObject of request p; broken: the request fails or the
\* body read is not JSON, and the handler falls back to the default board
AppendGet(p, broken) ==
  /\ p \in pending /\ p.stage = "get"
  /\ pending' = (pending \ {p}) \cup
                  {AtPut(p.id, IF broken THEN <<>> ELSE disk.cards)}
  /\ UNCHANGED << rev, disk, cpStore, heap, resp, arg, out >>

\* S3 stores the PutObject of request p and the handler answers 200, or the
\* PutObject fails and it answers 500
AppendPut(p, ok) ==
  /\ p \in pending /\ p.stage = "put"
  /\ pending' = pending \ {p}
  /\ IF ok
     THEN /\ disk' = [exists |-> TRUE, cards |-> p.cards]
          /\ out' = [out EXCEPT !.acked = @ \cup {p.id}]
          /\ resp' = [op |-> "append", code |-> 200, id |-> p.id]
     ELSE /\ resp' = [op |-> "append", code |-> 500, id |-> p.id]
          /\ UNCHANGED << disk, out >>
  /\ UNCHANGED << rev, cpStore, heap, arg >>

NextBoard ==
  \/ \E id \in RequestIds : AppendBegin(id)
  \/ \E p \in pending : AppendHead(p)
  \/ \E p \in pending, broken \in BOOLEAN : AppendGet(p, broken)
  \/ \E p \in pending, ok \in BOOLEAN : AppendPut(p, ok)

SpecBoard == InitBoard /\ [][NextBoard]_vars

\* ================================================ session language lock
\* sessions[sid] of one session is kept in out, with the number of its cards
\* for cards and the clock that nowISO() reads for now; arg tells whether
\* clusterStore[sid] holds clusters; a cluster run that waits for the
\* text-generation service is in pending.
NewSession ==
  [lang |-> "MS", langLocked |-> FALSE, lockedAt |-> 0, updatedAt |-> 1,
   appliedAt |-> 0, cards |-> 0, now |-> 1]
\* String(req.body?.lang || "").toUpperCase().trim()
UpperLang(lang) ==
  CASE lang = "ms" -> "MS"
    [] lang = "en" -> "EN"
    [] lang = "fr" -> "FR"
    [] OTHER -> lang
LangInputs == {"", "MS", "EN", "en", "fr"}

InitSession ==
  /\ rev \in Revisions
  /\ out = NewSession
  /\ arg = [clusters |-> FALSE]
  /\ cpStore = [k \in CuKeys |-> NoBucket]
  /\ heap = [o \in {} |-> Null]
  /\ pending = {}
  /\ resp = NoResp
  /\ disk = NoDisk

\* POST /api/session/config/:sessionId {lang}
SessionConfigNoGuard(lang) ==
  /\ out.now < MaxClock
  /\ IF UpperLang(lang) \notin {"MS", "EN"}
     THEN /\ resp' = [op |-> "config", code |-> 400]
          /\ UNCHANGED out
     ELSE /\ out' = [out EXCEPT !.lang = UpperLang(lang), !.updatedAt = out.now + 1,
                                !.now = out.now + 1]
          /\ resp' = [op |-> "config", code |-> 200]
  /\ UNCHANGED << rev, disk, cpStore, heap, pending, arg >>
SessionConfig(lang) ==
  /\ out.now < MaxClock
  /\ IF out.langLocked \/ UpperLang(lang) \notin {"MS", "EN"}
     THEN /\ resp' = [op |-> "config", code |-> 400]
          /\ UNCHANGED out
     ELSE /\ out' = [out EXCEPT !.lang = UpperLang(lang), !.updatedAt = out.now + 1,
                                !.now = out.now + 1]
          /\ resp' = [op |-> "config", code |-> 200]
  /\ UNCHANGED << rev, disk, cpStore, heap, pending, arg >>

\* POST /api/session/lock/:sessionId
SessionLock ==
  /\ out.now < MaxClock
  /\ out' = [out EXCEPT !.langLocked = TRUE, !.lockedAt = out.now + 1,
                        !.updatedAt = out.now + 1, !.now = out.now + 1]
  /\ resp' = [op |-> "session-lock", code |-> 200]
  /\ UNCHANGED << rev, disk, cpStore, heap, pending, arg >>

\* POST /api/session/unlock/:sessionId; part_003 has no such route
SessionUnlock ==
  /\ out.now < MaxClock
  /\ IF rev = "part_003"
     THEN /\ resp' = [op |-> "session-unlock", code |-> 404]
          /\ UNCHANGED out
     ELSE /\ out' = [out EXCEPT !.langLocked = FALSE, !.lockedAt = 0,
                                !.updatedAt = out.now + 1, !.now = out.now + 1]
          /\ resp' = [op |-> "session-unlock", code |-> 200]
  /\ UNCHANGED << rev, disk, cpStore, heap, pending, arg >>

\* POST /api/s2/seed-wa with MinCards titles (setSessionCards)
SessionSeed ==
  /\ out.now < MaxClock
  /\ out' = [out EXCEPT !.cards = MinCards, !.updatedAt = out.now + 1, !.now = out.now + 1]
  /\ resp' = [op |-> "seed-wa", code |-> 200]
  /\ UNCHANGED << rev, disk, cpStore, heap, pending, arg >>

\* POST /api/cluster/run, up to the await of the text-generation service,
\* with the auto-lock; hasKey: OPENAI_API_KEY is set
SessionRunBegin(hasKey) ==
  /\ out.now < MaxClock
  /\ pending = {}
  /\ IF out.cards < MinCards
     THEN /\ resp' = [op |-> "cluster-run", code |-> 400]
          /\ UNCHANGED << out, pending >>
     ELSE IF ~hasKey
     THEN /\ resp' = [op |-> "cluster-run", code |-> 500]
          /\ UNCHANGED << out, pending >>
     ELSE /\ out' = IF out.langLocked THEN [out EXCEPT !.now = out.now + 1]
                    ELSE [out EXCEPT !.langLocked = TRUE, !.lockedAt = out.now + 1,
                                     !.updatedAt = out.now + 1, !.now = out.now + 1]
          /\ pending' = {[op |-> "cluster-run"]}
          /\ UNCHANGED resp
  /\ UNCHANGED << rev, disk, cpStore, heap, arg >>

\* POST /api/cluster/run, from the answer of the service to the response;
\* clusters: the answer holds at least one cluster with a title and ids
SessionRunFinish(valid, clusters) ==
  /\ pending # {}
  /\ pending' = {}
  /\ IF ~valid
     THEN /\ resp' = [op |-> "cluster-run", code |-> 500]
          /\ UNCHANGED arg
     ELSE /\ arg' = [clusters |-> clusters]
          /\ resp' = [op |-> "cluster-run", code |-> 200]
  /\ UNCHANGED << rev, disk, cpStore, heap, out >>

\* POST /api/cluster/apply: sess.cus, sess.appliedAt and sess.updatedAt
SessionApply ==
  /\ out.now < MaxClock
  /\ IF ~arg.clusters
     THEN /\ resp' = [op |-> "cluster-apply", code |-> 400]
          /\ UNCHANGED out
     ELSE /\ out' = [out EXCEPT !.appliedAt = out.now + 1, !.updatedAt = out.now + 1,
                                !.now = out.now + 1]
          /\ resp' = [op |-> "cluster-apply", code |-> 200]
  /\ UNCHANGED << rev, disk, cpStore, heap, pending, arg >>

NextSession ==
  \/ \E lang \in LangInputs : SessionConfig(lang)
  \/ SessionLock
  \/ SessionUnlock
  \/ SessionSeed
  \/ \E hasKey \in BOOLEAN : SessionRunBegin(hasKey)
  \/ \E valid, clusters \in BOOLEAN : SessionRunFinish(valid, clusters)
  \/ SessionApply

SpecSession == InitSession /\ [][NextSession]_vars

\* ============================================= buildGraphClusters (DFS)
\* Vectors have two integer components; a threshold is a fraction << p, q >>
\* with q > 0.  Indices are 1-based here and 0-based in the code.
Vectors2 == { << 1, 0 >>, << 0, 1 >>, << 1, 1 >>, << 0, 0 >>, << 0 - 1, 0 >> }
GraphThresholds == { << 0 - 1, 2 >>, << 0, 1 >>, << 7, 10 >>, << 82, 100 >>, << 1, 1 >> }
Dot(a, b) == a[1] * b[1] + a[2] * b[2]
\* cosineSim(a, b) >= threshold, in exact arithmetic (the code rounds to
\* doubles): the similarity is dot / (sqrt(na) * sqrt(nb)), and 0 when a
\* norm is 0
CosineGeq(a, b, thr) ==
  LET dot == Dot(a, b)
      m == Dot(a, a) * Dot(b, b)
      l == thr[2] * dot
      p == thr[1]
  IN IF m = 0 THEN 0 >= p
     ELSE IF l >= 0 /\ p <= 0 THEN TRUE
     ELSE IF l < 0 /\ p >= 0 THEN FALSE
     ELSE IF l >= 0 THEN l * l >= p * p * m
     ELSE l * l <= p * p * m
\* adj[u]: the neighbours of u in the order the two loops push them
Adjacency(vectors, thr) ==
  [u \in 1..Len(vectors) |->
     LET lower == SelectSeq([i \in 1..(u - 1) |-> i],
                            LAMBDA i : CosineGeq(vectors[i], vectors[u], thr))
         upper == SelectSeq([k \in 1..(Len(vectors) - u) |-> u + k],
                            LAMBDA j : CosineGeq(vectors[u], vectors[j], thr))
     IN lower \o upper]
\* for (const v of adj[u]) if (!seen[v]) { seen[v] = true; stack.push(v); }
RECURSIVE PushUnseen(_, _, _)
PushUnseen(nbrs, stack, seen) ==
  IF nbrs = <<>> THEN [stack |-> stack, seen |-> seen]
  ELSE IF Head(nbrs) \in seen THEN PushUnseen(Tail(nbrs), stack, seen)
  ELSE PushUnseen(Tail(nbrs), Append(stack, Head(nbrs)), seen \cup {Head(nbrs)})
\* while (stack.length) { const u = stack.pop(); comp.push(u); ... }
RECURSIVE VisitShallow(_, _, _, _)
VisitShallow(adj, stack, seen, comp) ==
  IF stack = <<>> THEN [comp |-> comp, seen |-> seen]
  ELSE LET u == stack[Len(stack)]
           rest == SubSeq(stack, 1, Len(stack) - 1)
           pushed == IF comp = <<>> THEN PushUnseen(adj[u], rest, seen)
                     ELSE [stack |-> rest, seen |-> seen]
       IN VisitShallow(adj, pushed.stack, pushed.seen, Append(comp, u))
RECURSIVE Visit(_, _, _, _)
Visit(adj, stack, seen, comp) ==
  IF stack = <<>> THEN [comp |-> comp, seen |-> seen]
  ELSE LET u == stack[Len(stack)]
           pushed == PushUnseen(adj[u], SubSeq(stack, 1, Len(stack) - 1), seen)
       IN Visit(adj, pushed.stack, pushed.seen, Append(comp, u))
\* for (let i = 0; i < n; i++) { if (seen[i]) continue; ... comps.push(comp); }
RECURSIVE ComponentsFrom(_, _, _)
ComponentsFrom(adj, i, seen) ==
  IF i > Len(adj) THEN <<>>
  ELSE IF i \in seen THEN ComponentsFrom(adj, i + 1, seen)
  ELSE LET r == Visit(adj, << i >>, seen \cup {i}, <<>>)
       IN << r.comp >> \o ComponentsFrom(adj, i + 1, r.seen)
buildGraphClustersDfs(vectors, thr) == ComponentsFrom(Adjacency(vectors, thr), 1, {})

InitGraph ==
  /\ rev = "part_004"
  /\ \E n \in 0..MaxVectors :
       \E v \in [1..n -> Vectors2], t \in GraphThresholds :
         arg = [vectors |-> v, threshold |-> t]
  /\ out = NoOut
  /\ cpStore = [k \in CuKeys |-> NoBucket]
  /\ heap = [o \in {} |-> Null]
  /\ pending = {}
  /\ resp = NoResp
  /\ disk = NoDisk

\* buildGraphClusters(vectors, threshold)
GraphClusters ==
  /\ ~out.done
  /\ out' = [done |-> TRUE, comps |-> buildGraphClustersDfs(arg.vectors, arg.threshold)]
  /\ UNCHANGED << rev, disk, cpStore, heap, pending, resp, arg >>

NextGraph == GraphClusters

SpecGraph == InitGraph /\ [][NextGraph]_vars

\* ================================================================ claims
ErrorIssues(v) == {i \in 1..Len(v.issues) : v.issues[i].level = "ERROR"}
NoErrorIssue(v) == ErrorIssues(v) = {}
IssueCodes(v) == {v.issues[i].code : i \in 1..Len(v.issues)}
LatestDoc(store, h, k) == h[getLatestCp(store, k).cp]
EntryCount(store, k) == Len(store[k].versions)
Numbers(store, k) ==
  [i \in 1..Len(store[k].versions) |-> VersionNumber(store[k].versions[i].version)]
LockAnswered(code) == resp.op = "lock" /\ resp.code = code

\* C1: for a pair with a stored version, a lock request succeeds (answers 200,
\* the latest document is LOCKED and the history is one entry longer) if and
\* only if validate() of the latest stored document has no ERROR-level issue.
C1_LockIffNoError ==
  [][\A k \in CuKeys, by \in LockedBys :
       (Lock(k, by) /\ ~NoLatestCp(cpStore, k)) =>
         (( /\ resp'.code = 200
            /\ LatestDoc(cpStore', heap', k).status = "LOCKED"
            /\ EntryCount(cpStore', k) = EntryCount(cpStore, k) + 1 )
          <=> NoErrorIssue(Validate(rev, LatestDoc(cpStore, heap, k))))]_vars
C1_LockSucceeded ==
  /\ LockAnswered(200)
  /\ \E k \in CuKeys : ~NoLatestCp(cpStore, k) /\ LatestDoc(cpStore, heap, k).status = "LOCKED"

\* C2: every stored document whose status is LOCKED has no ERROR-level issue
\* under validate().
C2_LockedDocsHaveNoError ==
  \A o \in DOMAIN heap :
    heap[o].status = "LOCKED" => NoErrorIssue(Validate(rev, heap[o]))

\* C3: once a version entry holds a LOCKED document, no step changes or
\* replaces that entry.
C3_LockedEntryKept ==
  [][\A k \in CuKeys : \A i \in 1..EntryCount(cpStore, k) :
       heap[cpStore[k].versions[i].cp].status = "LOCKED" =>
         /\ i <= EntryCount(cpStore', k)
         /\ cpStore'[k].versions[i].version = cpStore[k].versions[i].version
         /\ heap'[cpStore'[k].versions[i].cp] = heap[cpStore[k].versions[i].cp]]_vars

\* C4: the version numbers of a pair's history are strictly increasing in
\* history order, and a step only ever extends the sequence of numbers, so no
\* number is given to two appended entries.
C4_VersionsIncrease ==
  [][\A k \in CuKeys :
       LET a == Numbers(cpStore, k)
           b == Numbers(cpStore', k)
       IN /\ Len(a) <= Len(b)
          /\ SubSeq(b, 1, Len(a)) = a
          /\ \A i, j \in 1..Len(b) : i < j => b[i] < b[j]]_vars
C4_FullHistory ==
  \E k \in CuKeys : EntryCount(cpStore, k) = MaxVersion /\ resp.op = "draft"

\* C5: a lock request on a latest document with an ERROR-level issue answers
\* 400 with the issue list and leaves the version store as it was.
C5_RejectedLockChangesNothing ==
  [][\A k \in CuKeys, by \in LockedBys :
       ( /\ Lock(k, by)
         /\ ~NoLatestCp(cpStore, k)
         /\ ~NoErrorIssue(Validate(rev, LatestDoc(cpStore, heap, k))) ) =>
         /\ resp'.code = 400
         /\ resp'.validation.issues = Validate(rev, LatestDoc(cpStore, heap, k)).issues
         /\ cpStore' = cpStore
         /\ heap' = heap]_vars
C5_LockRejected ==
  /\ LockAnswered(400)
  /\ \E k \in CuKeys : ~NoLatestCp(cpStore, k) /\ LatestDoc(cpStore, heap, k).status # "LOCKED"

\* C6: a successful lock appends exactly one entry, numbered one above the
\* previous latest; a saveWorking on a pair that has entries replaces the
\* latest entry in place, keeping the entry count and the latest number.
C6_LockAppendsPutReplaces ==
  [][\A k \in CuKeys :
       /\ \A by \in LockedBys :
            (Lock(k, by) /\ resp'.code = 200) =>
              /\ EntryCount(cpStore', k) = EntryCount(cpStore, k) + 1
              /\ LatestNumber(cpStore', k) = LatestNumber(cpStore, k) + 1
              /\ SubSeq(cpStore'[k].versions, 1, EntryCount(cpStore, k)) = cpStore[k].versions
       /\ \A body \in PutBodies(k) :
            (~NoLatestCp(cpStore, k) /\ Put(k, body)) =>
              /\ EntryCount(cpStore', k) = EntryCount(cpStore, k)
              /\ LatestNumber(cpStore', k) = LatestNumber(cpStore, k)
              /\ cpStore'[k].latestVersion = cpStore[k].latestVersion
              /\ SubSeq(cpStore'[k].versions, 1, EntryCount(cpStore, k) - 1)
                   = SubSeq(cpStore[k].versions, 1, EntryCount(cpStore, k) - 1)
              /\ LatestDoc(cpStore', heap', k).wa = body.wa]_vars
C6_PutOnHistory ==
  /\ resp.op = "put"
  /\ \E k \in CuKeys : EntryCount(cpStore, k) >= 2

\* C7: every stored document has status DRAFT or LOCKED.
C7_StatusDraftOrLocked ==
  \A o \in DOMAIN heap : heap[o].status \in {"DRAFT", "LOCKED"}

\* C8: validate() reports passed (ok in server.js; minRulesPassed and vocPassed,
\* the flags of the ERROR-level rules, in part_003) exactly when its issue list
\* holds no ERROR-level issue, and a lock request on a document without an
\* ERROR-level issue, whatever its warnings, succeeds.
Passed(v) == IF "ok" \in DOMAIN v THEN v.ok ELSE v.minRulesPassed /\ v.vocPassed
C8_PassedIffNoError ==
  [][ /\ out'.done => (Passed(out'.validation) <=> NoErrorIssue(out'.validation))
      /\ \A k \in CuKeys, by \in LockedBys :
           ( /\ Lock(k, by)
             /\ ~NoLatestCp(cpStore, k)
             /\ NoErrorIssue(Validate(rev, LatestDoc(cpStore, heap, k))) ) =>
             /\ resp'.code = 200
             /\ LatestDoc(cpStore', heap', k).status = "LOCKED" ]_vars
C8_WarningOnlyLocked ==
  /\ LockAnswered(200)
  /\ out.done /\ Passed(out.validation)
  /\ \E i \in 1..Len(out.validation.issues) : out.validation.issues[i].level # "ERROR"
  /\ \E k \in CuKeys : LatestDoc(cpStore, heap, k).validation = out.validation

\* C9: for a CU with at least 3 WAs the generated draft has at least 3 WAs,
\* at least 3 WS in each and a PC on every WS, and validate() reports no
\* MIN_WA, MIN_WS or MISSING_PC on it.
C9_DraftMeetsMinimums ==
  (out.done /\ Len(arg.cu.wa) >= 3) =>
    /\ Len(out.cp.wa) >= 3
    /\ \A i \in 1..Len(out.cp.wa) :
         /\ Len(out.cp.wa[i].steps) >= 3
         /\ \A j \in 1..Len(out.cp.wa[i].steps) : out.cp.wa[i].steps[j].pc.kind # "absent"
    /\ IssueCodes(out.validation) \cap {"MIN_WA", "MIN_WS", "MISSING_PC"} = {}

\* C10: validate() gives every document with fewer than 3 WAs a MIN_WA ERROR,
\* and a lock request on a latest document with fewer than 3 WAs is rejected
\* and leaves the history as it was.
C10_FewWaRejected ==
  [][ /\ (out'.done /\ Len(arg.wa) < 3) =>
           \E i \in 1..Len(out'.validation.issues) :
             /\ out'.validation.issues[i].code = "MIN_WA"
             /\ out'.validation.issues[i].level = "ERROR"
      /\ \A k \in CuKeys, by \in LockedBys :
           ( /\ Lock(k, by)
             /\ ~NoLatestCp(cpStore, k)
             /\ Len(LatestDoc(cpStore, heap, k).wa) < 3 ) =>
             /\ resp'.code = 400
             /\ cpStore' = cpStore ]_vars
C10_TwoWaRejected ==
  /\ LockAnswered(400)
  /\ out.done
  /\ \E k \in CuKeys : ~NoLatestCp(cpStore, k) /\ Len(LatestDoc(cpStore, heap, k).wa) = 2

\* the documents whose WA and WS lists the validator of revision r reads
Readable(r, cp) == r = "server.js" \/ cp.shape = "workActivities"
Reported(v, level, code, i, j) ==
  \E n \in 1..Len(v.issues) : v.issues[n] = Issue(level, code, i, j)
\* a WS without a PC, or with a PC whose text is empty
NoPcText(step) == step.pc.kind = "absent" \/ step.pc.text = "empty"
\* a WS whose PC has an empty verb, object or qualifier
VocEmpty(step) ==
  step.pc.kind = "object" /\ (~step.pc.verb \/ ~step.pc.object \/ ~step.pc.qualifier)
StepsOf(cp) == {<< i, j >> \in (1..MaxWA + 1) \X (1..MaxWS + 1) :
                  i <= Len(cp.wa) /\ j <= Len(cp.wa[i].steps)}

\* C11: validate() reports an ERROR-level MISSING_PC for every WS that has no
\* PC or whose PC has empty text, and a lock request on a latest document
\* with such a WS is rejected.
C11_MissingPcReported ==
  [][ /\ (out'.done /\ Readable(rev, arg)) =>
           \A ij \in StepsOf(arg) :
             NoPcText(arg.wa[ij[1]].steps[ij[2]]) =>
               Reported(out'.validation, "ERROR", "MISSING_PC", ij[1], ij[2])
      /\ \A k \in CuKeys, by \in LockedBys :
           ( /\ Lock(k, by)
             /\ ~NoLatestCp(cpStore, k)
             /\ Readable(rev, LatestDoc(cpStore, heap, k))
             /\ \E ij \in StepsOf(LatestDoc(cpStore, heap, k)) :
                  NoPcText(LatestDoc(cpStore, heap, k).wa[ij[1]].steps[ij[2]]) ) =>
             /\ resp'.code = 400
             /\ cpStore' = cpStore ]_vars

\* C12: validate() reports an ERROR-level VOC_FAIL for every WS whose PC has
\* an empty verb, an empty object or an empty qualifier, and a lock request on
\* a latest document with such a PC is rejected.
C12_VocFailReported ==
  [][ /\ (out'.done /\ Readable(rev, arg)) =>
           \A ij \in StepsOf(arg) :
             VocEmpty(arg.wa[ij[1]].steps[ij[2]]) =>
               Reported(out'.validation, "ERROR", "VOC_FAIL", ij[1], ij[2])
      /\ \A k \in CuKeys, by \in LockedBys :
           ( /\ Lock(k, by)
             /\ ~NoLatestCp(cpStore, k)
             /\ Readable(rev, LatestDoc(cpStore, heap, k))
             /\ \E ij \in StepsOf(LatestDoc(cpStore, heap, k)) :
                  VocEmpty(LatestDoc(cpStore, heap, k).wa[ij[1]].steps[ij[2]]) ) =>
             /\ resp'.code = 400
             /\ cpStore' = cpStore ]_vars

\* the card ids of an emitted cluster
Members(cl) == IF "cardIds" \in DOMAIN cl THEN cl.cardIds ELSE cl.ids

\* C13: in one clustering run, lexical or vector, no card id is a member of
\* two different emitted clusters.
C13_ClustersDisjoint ==
  out.done =>
    \A a, b \in 1..Len(out.clusters) :
      a # b => SetOf(Members(out.clusters[a])) \cap SetOf(Members(out.clusters[b])) = {}
C13_TwoClusters ==
  /\ out.done /\ Len(out.clusters) >= 2
  /\ \E a, b \in 1..Len(arg.cards) : a # b /\ arg.cards[a].id = arg.cards[b].id

\* the three cards of the example, lexical mode, minClusterSize 2
ExampleCards ==
  << Card(1, << "Record", "attendance" >>), Card(2, << "Log", "attendance", "sheet" >>),
     Card(3, << "Prepare", "annual", "budget" >>) >>
IsExample(a, thr) ==
  /\ a.mode = "lexical" /\ a.cards = ExampleCards
  /\ a.similarityThreshold = thr /\ a.minClusterSize = 2

\* C14 (as amended): lexical clustering of the three cards of the example
\* with similarityThreshold 0.3 and minClusterSize 2 emits no cluster and
\* leaves all three cards unassigned, the first two cards having one token of
\* four in common (similarity 0.25); with similarityThreshold 0.25 it emits
\* exactly one cluster, of the first two cards, and leaves the third
\* unassigned.
C14_ExampleBelowThreshold ==
  /\ (out.done /\ IsExample(arg, << 3, 10 >>)) =>
       out.clusters = <<>> /\ out.unassigned = << 1, 2, 3 >>
  /\ (out.done /\ IsExample(arg, << 1, 4 >>)) =>
       /\ Len(out.clusters) = 1 /\ Members(out.clusters[1]) = << 1, 2 >>
       /\ out.unassigned = << 3 >>
C14_ExampleRun == out.done /\ IsExample(arg, << 3, 10 >>)
\* C14 (as stated): with similarityThreshold 0.3 the run emits exactly one
\* cluster, of the first two cards, and leaves the third unassigned.
C14_ExampleOneCluster ==
  (out.done /\ IsExample(arg, << 3, 10 >>)) =>
    /\ Len(out.clusters) = 1 /\ Members(out.clusters[1]) = << 1, 2 >>
    /\ out.unassigned = << 3 >>

\* the cards of the input have ids of their own and a text each
DistinctIds(cards) ==
  /\ \A a, b \in 1..Len(cards) : a # b => cards[a].id # cards[b].id
  /\ \A a \in 1..Len(cards) : cards[a].text # <<>>
\* the connected components of the similarity graph over the cards, as sets
\* of card ids, that have at least minClusterSize members
BigComponents(a) ==
  {c \in {{a.cards[i].id : i \in Reach({n}, a.edges)} : n \in 1..Len(a.cards)} :
     Cardinality(c) >= a.minClusterSize}
ClusteredIds(o) == UNION {SetOf(Members(o.clusters[n])) : n \in 1..Len(o.clusters)}

\* C15: in vector mode, for cards with ids of their own and a text each,
\* the emitted clusters are connected components of at
\* least minClusterSize members, the largest first and at most maxClusters of
\* them (all of them when there are no more than maxClusters), and every
\* input card is in an emitted cluster or in unassigned, never in both.
C15_VectorPartition ==
  (out.done /\ arg.mode \in {"vector", "suggest"} /\ DistinctIds(arg.cards)) =>
    /\ \A n \in 1..Len(out.clusters) : SetOf(Members(out.clusters[n])) \in BigComponents(arg)
    /\ Len(out.clusters) = Min(arg.maxClusters, Cardinality(BigComponents(arg)))
    /\ \A n \in 1..(Len(out.clusters) - 1) :
         Len(Members(out.clusters[n])) >= Len(Members(out.clusters[n + 1]))
    /\ \A i \in 1..Len(arg.cards) :
         (arg.cards[i].id \in ClusteredIds(out)) # (arg.cards[i].id \in SetOf(out.unassigned))

\* C16: a build over a range of pages that completed builds have crawled
\* reports added = 0 and leaves the records of the index as they were.
C16_RebuildAddsNothing ==
  [][\A fromPage, toPage \in 1..MaxPage :
       ( /\ Build(fromPage, toPage, 0)
         /\ (fromPage..toPage) \subseteq out.crawled ) =>
         /\ resp'.code = 200 /\ resp'.added = 0
         /\ disk'.index = disk.index]_vars
C16_Rebuilt ==
  /\ resp.op = "build" /\ resp.code = 200 /\ resp.added = 0
  /\ Len(disk.index) >= 2 /\ out.crawled = 1..MaxPage

\* C17: a build over several pages in which the crawl of one page fails
\* still answers 200, and the titled CUs of the other pages of the range
\* are in the saved index.
C17_FailedPageSkipped ==
  [][\A fromPage, toPage \in 1..MaxPage, failAt \in 1..MaxPage :
       ( /\ Build(fromPage, toPage, failAt)
         /\ fromPage < toPage /\ failAt \in fromPage..toPage ) =>
         /\ resp'.code = 200
         /\ \A p \in (fromPage..toPage) \ {failAt} :
              \A n \in 1..Len(arg.pages[p]) :
                arg.pages[p][n].cuTitle =>
                  \E m \in 1..Len(disk'.index) :
                    disk'.index[m].cuCode = arg.pages[p][n].cuCode]_vars

\* the largest of the scores of CU i against the index
BestOfIndex(i) ==
  CHOOSE x \in {Fixed4(arg.cus[i][j]) : j \in 1..arg.index} :
    \A j \in 1..arg.index : Fixed4(arg.cus[i][j]) <= x

\* the topK of a request whose options.topK is a number or absent: the
\* default is 3 and the value is clamped to 1..10
AskedTopK == IF arg.topK.kind = "absent" THEN 3 ELSE Max(1, Min(10, arg.topK.n))

C19_ServiceFailureFallsBack ==
  (out.done /\ arg.svc # "rows") =>
    /\ resp.code = 200
    /\ Len(out.workActivities) = arg.waCount
    /\ \A i \in 1..Len(out.workActivities) : out.workActivities[i] \in {"fallbackSeed", "template"}

C21_OneRebuildAtATime ==
  \A p, q \in pending :
    (p.stage = "catalog" /\ q.stage = "catalog" /\ p.items = q.items) => p = q

\* C25: a match call sends the catalog texts only if there is no cache yet
\* or the cached item count differs from the catalog's; a call that gets the
\* vectors of an unchanged catalog leaves a cache with the catalog's count, so
\* the calls after it send nothing; and the items and vectors a match scores
\* against have the same length.
SendsCatalog(id) == \E p \in pending' \ pending : p.id = id /\ p.stage = "catalog"
C25_CatalogSentOnlyWhenStale ==
  [][/\ \A id \in RequestIds :
          SendsCatalog(id) =>
            \/ ~out.set
            \/ Len(out.items) # Len(disk.index)
     /\ \A p \in pending :
          (CatalogEmbedded(p, TRUE) /\ p.items = disk.index) =>
            /\ CacheFresh(out', disk'.index)
            /\ out'.items = disk'.index
     /\ \A p \in pending' :
          p.stage = "query" => Len(p.myItems) = Len(p.myEmb)
     /\ (resp'.op = "compare" /\ resp'.code = 200) => resp'.scored = resp'.vectors]_vars
\* a second match call on an unchanged catalog has gone to the scoring of
\* its CUs with the cache the first call filled
C25_SecondCallUsedCache ==
  /\ resp.op = "compare" /\ resp.code = 200
  /\ out.set /\ out.items = disk.index /\ Len(disk.index) = MaxCatalog
  /\ \E p \in pending : p.stage = "query" /\ p.id # resp.id /\ p.myItems = out.items

\* C22: the id and the text of a card never change, a tag a card carries is
\* never changed, and only the apply-cluster step writes a tag.
C22_CardTagWrittenOnce ==
  [][\A i \in 1..Len(out.cards), j \in 1..Len(out'.cards) :
       out.cards[i].id = out'.cards[j].id =>
         /\ getCardText(out'.cards[j]) = getCardText(out.cards[i])
         /\ out.cards[i].cuTitle # NoTag => out'.cards[j].cuTitle = out.cards[i].cuTitle
         /\ out'.cards[j].cuTitle # out.cards[i].cuTitle => ClusterApply]_vars

\* C23: after an apply of the stored cluster result, no card id is under more
\* than one CU of the session, and every WorkActivity of a CU is a card of
\* the session.
ListedIn(cus, i) == {cus[i].activities[j].cardIds[1] : j \in 1..Len(cus[i].activities)}
C23_CardUnderOneCu ==
  [][(ClusterApply /\ resp'.code = 200) =>
       /\ \A i, k \in 1..Len(out'.cus) :
            i # k => ListedIn(out'.cus, i) \cap ListedIn(out'.cus, k) = {}
       /\ \A i \in 1..Len(out'.cus) :
            \A id \in ListedIn(out'.cus, i) : HasCard(out.cards, id)]_vars

\* C27: after a successful apply a card carries a tag exactly when the applied
\* result lists its id, the tag is then the title of a cluster that lists it,
\* and the chart built from the cards has only CUs of the applied result.
ClustersListing(clusters, id) ==
  {i \in 1..Len(clusters) : \E j \in 1..Len(clusters[i].cardIds) : clusters[i].cardIds[j] = id}
C27_TagsFollowLatestApply ==
  [][(ClusterApply /\ resp'.code = 200) =>
       /\ \A j \in 1..Len(out'.cards) :
            LET c == out'.cards[j]
                listing == ClustersListing(arg.clusters, c.id)
            IN /\ c.cuTitle # NoTag <=> listing # {}
               /\ listing # {} => \E i \in listing : arg.clusters[i].title = c.cuTitle
       /\ \A k \in 1..Len(buildCpcForSession(out'.cards)) :
            \E i \in 1..Len(arg.clusters) :
              arg.clusters[i].title = buildCpcForSession(out'.cards)[k].cuTitle]_vars

\* C24: through every sequence of build runs from an empty index, no two
\* records of the index have the same cuCode, and every run keeps the records
\* it found, unchanged and in their places.
C24_IndexAppendOnlyNoDuplicate ==
  [][/\ \A i, j \in 1..Len(disk'.index) :
          disk'.index[i].cuCode = disk'.index[j].cuCode => i = j
     /\ Len(disk.index) <= Len(disk'.index)
     /\ SubSeq(disk'.index, 1, Len(disk.index)) = disk.index]_vars
\* a later run has added records after the records of an earlier run, on a
\* site that shows one cuCode of the index under two JDs
C24_LaterRunAdded ==
  /\ resp.op = "build" /\ resp.code = 200
  /\ resp.added >= 1 /\ Len(disk.index) > resp.added
  /\ \E p, q \in 1..MaxPage :
       \E i \in 1..Len(arg.pages[p]), j \in 1..Len(arg.pages[q]) :
         /\ arg.pages[p][i].cuCode = arg.pages[q][j].cuCode
         /\ arg.pages[p][i].jdId # arg.pages[q][j].jdId
         /\ arg.pages[p][i].cuTitle /\ arg.pages[q][j].cuTitle
         /\ \E n \in 1..Len(disk.index) : disk.index[n].cuCode = arg.pages[p][i].cuCode

\* C26: a successful lock leaves the document of every entry that was there
\* before it as it was: only the appended entry shows status LOCKED, the lock
\* metadata and the cpId.
C26_LockKeepsEarlierDocuments ==
  [][\A k \in CuKeys, by \in LockedBys :
       (Lock(k, by) /\ resp'.code = 200) =>
         \A i \in 1..EntryCount(cpStore, k) :
           heap'[cpStore'[k].versions[i].cp] = heap[cpStore[k].versions[i].cp]]_vars

\* C28: the stored board holds the card of every append request that was
\* answered 200, under every interleaving of the requests' reads and writes.
C28_AckedAppendsStored ==
  \A id \in out.acked : \E i \in 1..Len(disk.cards) : disk.cards[i] = id

\* C29: while langLocked is true lang does not change; a language change on
\* a locked session answers 400 and leaves the session as it was; langLocked
\* becomes true only by the session lock or a cluster run; it becomes false
\* only by the unlock, which changes langLocked, lockedAt and updatedAt alone.
C29_LockedLangKept ==
  [][/\ out.langLocked => out'.lang = out.lang
     /\ \A lang \in LangInputs :
          (SessionConfig(lang) /\ out.langLocked) => (resp'.code = 400 /\ out' = out)
     /\ (~out.langLocked /\ out'.langLocked) =>
          (SessionLock \/ \E hasKey \in BOOLEAN : SessionRunBegin(hasKey))
     /\ (out.langLocked /\ ~out'.langLocked) =>
          /\ SessionUnlock
          /\ [out' EXCEPT !.langLocked = TRUE, !.lockedAt = out.lockedAt,
                          !.updatedAt = out.updatedAt, !.now = out.now] = out]_vars
\* a language change was rejected on a session that a cluster run locked
\* after its language had been set to EN and an unlock had reopened it
C29_ChangeRejected ==
  /\ resp.op = "config" /\ resp.code = 400
  /\ out.langLocked /\ out.lang = "EN"
  /\ out.cards >= MinCards /\ arg.clusters
  /\ out.lockedAt > 3

\* C30: buildGraphClusters returns a partition of the indices of its vectors,
\* and two indices are in one component exactly when a path of pairs with
\* cosine similarity at least the threshold joins them.
SimilarPairs(a) ==
  { {i, j} : i, j \in 1..Len(a.vectors) } \ { {i} : i \in 1..Len(a.vectors) }
Joined(a) ==
  { e \in SimilarPairs(a) :
      \E i, j \in e : i < j /\ CosineGeq(a.vectors[i], a.vectors[j], a.threshold) }
PlacesOf(comps, i) ==
  { << c, m >> \in (1..Len(comps)) \X (1..MaxVectors + 1) :
      m <= Len(comps[c]) /\ comps[c][m] = i }
C30_ComponentsArePathClasses ==
  out.done =>
    /\ \A c \in 1..Len(out.comps) : SetOf(out.comps[c]) \subseteq 1..Len(arg.vectors)
    /\ \A i \in 1..Len(arg.vectors) : Cardinality(PlacesOf(out.comps, i)) = 1
    /\ \A i, j \in 1..Len(arg.vectors) :
         (\E c \in 1..Len(out.comps) : {i, j} \subseteq SetOf(out.comps[c]))
           <=> j \in Reach({i}, Joined(arg))
\* a component of three indices whose first and last are joined only by a
\* path through the middle one
C30_ChainComponent ==
  /\ out.done
  /\ \E c \in 1..Len(out.comps) :
       /\ Len(out.comps[c]) = 3
       /\ \E i, j \in SetOf(out.comps[c]) : i # j /\ {i, j} \notin Joined(arg)

====
